---- MODULE Spec2Model ----
(***************************************************************************)
(* Sandboxed condition evaluation with result caching, as implemented by   *)
(* three evaluators of the repository:                                     *)
(*   cloud : CloudGClientEvaluator     (cloud-service/gclient_evaluator_   *)
(*           service.py)                                                   *)
(*   opt   : OptimizedGClientEvaluator (tools/optimized_gclient_eval.py)   *)
(*   depot : DepotToolsOptimizer       (tools/depot_tools_optimizer.py)    *)
(* One behaviour is the life of one engine object of one of the three      *)
(* classes; the class is fixed at construction (variable engine).  The     *)
(* batch endpoint of the cloud service and the version detection of        *)
(* optimization/depot_tools_optimizer.py (DepotToolsVersionOptimizer) have *)
(* specifications of their own further down.                               *)
(***************************************************************************)
EXTENDS Integers, Sequences, FiniteSets, TLC

(***************************************************************************)
(* Bounds of the model.                                                    *)
(***************************************************************************)
\* calls of the evaluation entry point in one behaviour
MaxCalls == 2
\* the largest configured result-cache size (0 is the smallest)
MaxCacheSize == 1
\* concurrent callers (tasks of the event loop, threads) of one engine
NumCallers == 2
\* operations on the version optimizer and changes of its environment in
\* one behaviour
MaxOps == 4
\* calls of get_version by the threads of one behaviour, and ticks of the
\* clock while they run
MaxThreadCalls == 2
\* the configured result-cache size of the engine whose eviction is
\* followed, and the calls it serves
EvictSize == 10
MaxEvictCalls == 12
\* distinct expression texts evaluated one after the other by one engine:
\* one more than the largest lru_cache of _parse_and_validate holds
MaxTexts == 501

(***************************************************************************)
(* Python values.  t is the type tag, n the numeric payload (bool, int),   *)
(* s the text payload (str, builtin function name).                        *)
(***************************************************************************)
PyBool(b) == [t |-> "bool", n |-> IF b THEN 1 ELSE 0, s |-> ""]
PyInt(i)  == [t |-> "int",  n |-> i, s |-> ""]
PyStr(x)  == [t |-> "str",  n |-> 0, s |-> x]
PyNone    == [t |-> "none", n |-> 0, s |-> ""]
PyFunc(f) == [t |-> "func", n |-> 0, s |-> f]
\* a dict with one entry, {key: n}, as a caller can pass for a variable
PyDict(key, n) == [t |-> "dict", n |-> n, s |-> key]

\* bool(x): standard truthiness
Truthy(v) ==
  CASE v.t = "bool" -> v.n # 0
    [] v.t = "int"  -> v.n # 0
    [] v.t = "str"  -> v.s # ""
    [] v.t = "none" -> FALSE
    [] OTHER        -> TRUE

(***************************************************************************)
(* Syntax trees.  A node carries its kind (the Python class of the node),  *)
(* the identifier of a Name, the value of a Constant, and its child nodes  *)
(* in the order ast.iter_child_nodes yields them (the order of _fields).   *)
(***************************************************************************)
Node(kind, id, val, children) ==
  [kind |-> kind, id |-> id, val |-> val, children |-> children]

Load          == Node("Load", "", PyNone, <<>>)
Store         == Node("Store", "", PyNone, <<>>)
Op(kind)      == Node(kind, "", PyNone, <<>>)
Name(id)      == Node("Name", id, PyNone, <<Load>>)
Constant(v)   == Node("Constant", "", v, <<>>)
Compare(l, op, r) == Node("Compare", "", PyNone, <<l, Op(op), r>>)
BoolOp(op, a, b)  == Node("BoolOp", "", PyNone, <<Op(op), a, b>>)
UnaryOp(op, a)    == Node("UnaryOp", "", PyNone, <<Op(op), a>>)
BinOp(l, op, r)   == Node("BinOp", "", PyNone, <<l, Op(op), r>>)
Call(f, a)        == Node("Call", "", PyNone, <<f, a>>)
Attribute(v, a)   == Node("Attribute", a, PyNone, <<v, Load>>)
Tuple0            == Node("Tuple", "", PyNone, <<Load>>)
Lambda(body)      == Node("Lambda", "", PyNone, <<Op("arguments"), body>>)
ListComp(elt, target, iter) ==
  Node("ListComp", "", PyNone,
       <<elt, Node("comprehension", "", PyNone, <<target, iter>>)>>)
Expression(body)  == Node("Expression", "", PyNone, <<body>>)

(***************************************************************************)
(* Condition texts, as token sequences.  " " is a whitespace token.        *)
(***************************************************************************)
TxtAndroid == <<"target_os", "==", "'android'", "and", "not", "checkout_ios">>
TxtEq      == <<"target_os", "==", "'android'">>
TxtOr      == <<"checkout_ios", "or", "checkout_mac">>
TxtLt      == <<"target_os", "<", "1">>
TxtAdd     == <<"n", "+", "1", ">", "1">>
TxtCall    == <<"len", "(", "target_os", ")", ">", "0">>
TxtAttr    == <<"(", ")", ".", "__class__">>
TxtLambda  == <<"lambda", ":", "1">>
TxtComp    == <<"[", "x", "for", "x", "in", "range", "(", "3", ")", "]">>
TxtSyntax  == <<"target_os", "==">>
TxtBuiltin == <<"len", "==", "len">>
TxtNEq     == <<"n", "==", "78257">>
\* the texts 'n > 0', 'n > 1', ...: as many distinct valid expressions as
\* there are numerals
TxtGt(k)   == <<"n", ">", ToString(k)>>
Numerals   == 0..MaxTexts
\* a text whose string literal holds a lone surrogate code point (a Python
\* str can, e.g. out of json.loads)
TxtSurrogate == <<"target_os", "==", "'\\ud800'">>

\* str.encode('utf-8') succeeds unless the text holds a lone surrogate,
\* for which it raises UnicodeEncodeError
Utf8Encodable(text) == \A i \in 1..Len(text) : text[i] # "'\\ud800'"

\* str.strip(): drop leading and trailing whitespace tokens
RECURSIVE LStrip(_)
LStrip(s) == IF s # <<>> /\ Head(s) = " " THEN LStrip(Tail(s)) ELSE s
RECURSIVE RStrip(_)
RStrip(s) ==
  IF s # <<>> /\ s[Len(s)] = " " THEN RStrip(SubSeq(s, 1, Len(s) - 1)) ELSE s
Strip(s) == RStrip(LStrip(s))

\* ast.parse(text, mode='eval') on the texts above: ok = FALSE is an
\* exception raised by the parser (SyntaxError; UnicodeEncodeError for
\* TxtSurrogate); every other text is taken to be a syntax error.
ast_parse(text) ==
  CASE text = TxtAndroid ->
         [ok |-> TRUE, tree |-> Expression(
            BoolOp("And",
                   Compare(Name("target_os"), "Eq", Constant(PyStr("android"))),
                   UnaryOp("Not", Name("checkout_ios"))))]
    [] text = TxtEq ->
         [ok |-> TRUE, tree |-> Expression(
            Compare(Name("target_os"), "Eq", Constant(PyStr("android"))))]
    [] text = TxtOr ->
         [ok |-> TRUE, tree |-> Expression(
            BoolOp("Or", Name("checkout_ios"), Name("checkout_mac")))]
    [] text = TxtLt ->
         [ok |-> TRUE, tree |-> Expression(
            Compare(Name("target_os"), "Lt", Constant(PyInt(1))))]
    [] text = TxtAdd ->
         [ok |-> TRUE, tree |-> Expression(
            Compare(BinOp(Name("n"), "Add", Constant(PyInt(1))), "Gt",
                    Constant(PyInt(1))))]
    [] text = TxtCall ->
         [ok |-> TRUE, tree |-> Expression(
            Compare(Call(Name("len"), Name("target_os")), "Gt",
                    Constant(PyInt(0))))]
    [] text = TxtAttr ->
         [ok |-> TRUE, tree |-> Expression(Attribute(Tuple0, "__class__"))]
    [] text = TxtLambda ->
         [ok |-> TRUE, tree |-> Expression(Lambda(Constant(PyInt(1))))]
    [] text = TxtComp ->
         [ok |-> TRUE, tree |-> Expression(
            ListComp(Name("x"), Node("Name", "x", PyNone, <<Store>>),
                     Call(Name("range"), Constant(PyInt(3)))))]
    [] text = TxtNEq ->
         [ok |-> TRUE, tree |-> Expression(
            Compare(Name("n"), "Eq", Constant(PyInt(78257))))]
    [] text = TxtBuiltin ->
         [ok |-> TRUE, tree |-> Expression(
            Compare(Name("len"), "Eq", Name("len")))]
    [] /\ Len(text) = 3 /\ text[1] = "n" /\ text[2] = ">"
       /\ \E k \in Numerals : text[3] = ToString(k) ->
         [ok |-> TRUE, tree |-> Expression(
            Compare(Name("n"), "Gt",
                    Constant(PyInt(CHOOSE k \in Numerals :
                                     text[3] = ToString(k)))))]
    [] OTHER -> [ok |-> FALSE, tree |-> Op("SyntaxError")]

(***************************************************************************)
(* The allow-lists.  In the interpreters the code runs on, a constant is   *)
(* parsed as ast.Constant; ast.Str, ast.Num, ast.Index, ast.ExtSlice and   *)
(* ast.Ellipsis are classes no parsed node has as its type.                *)
(***************************************************************************)
CloudAllowedNodes ==
  {"Expression", "BinOp", "BoolOp", "Compare", "Name",
   "Str", "Num", "List", "Dict", "Tuple", "Load",
   "And", "Or", "Not", "Eq", "NotEq", "Lt", "Gt",
   "LtE", "GtE", "In", "NotIn", "Is", "IsNot",
   "Constant"}

OptAllowedNodes ==
  {"Expression", "BinOp", "BoolOp", "Compare", "Name",
   "Str", "Num", "List", "Dict", "Tuple", "Load",
   "And", "Or", "Not", "Eq", "NotEq", "Lt", "Gt",
   "LtE", "GtE", "In", "NotIn", "Is", "IsNot",
   "Add", "Sub", "Mult", "Div", "Mod", "UnaryOp",
   "UAdd", "USub", "IfExp", "Subscript", "Index",
   "Slice", "ExtSlice", "Ellipsis"} \cup {"Constant"}

DepotAllowedNodes ==
  {"Expression", "BinOp", "BoolOp", "Compare", "Name",
   "Constant", "List", "Dict", "Tuple", "Load",
   "And", "Or", "Not", "Eq", "NotEq", "Lt", "Gt",
   "LtE", "GtE", "In", "NotIn"}

\* the walk, checking the root and never pushing children
ValidateWalk_RootOnly(stack, allowed) ==
  IF stack = <<>> \/ stack[Len(stack)].kind \in allowed THEN "ok"
  ELSE stack[Len(stack)].kind

\* the walk, checking only the nodes that have children
RECURSIVE ValidateWalk_LeavesUnchecked(_, _)
ValidateWalk_LeavesUnchecked(stack, allowed) ==
  IF stack = <<>> THEN "ok"
  ELSE LET current == stack[Len(stack)]
           rest    == SubSeq(stack, 1, Len(stack) - 1)
       IN  IF current.children # <<>> /\ current.kind \notin allowed
           THEN current.kind
           ELSE ValidateWalk_LeavesUnchecked(rest \o current.children, allowed)

\* the walk with an explicit stack: pop the last node, reject its kind if
\* it is not allowed, push its children.  The result is "ok" or the kind
\* named by the ValueError.
RECURSIVE ValidateWalk(_, _)
ValidateWalk(stack, allowed) ==
  IF stack = <<>> THEN "ok"
  ELSE LET current == stack[Len(stack)]
           rest    == SubSeq(stack, 1, Len(stack) - 1)
       IN  IF current.kind \notin allowed THEN current.kind
           ELSE ValidateWalk(rest \o current.children, allowed)

_validate_ast_security(node, allowed) == ValidateWalk(<<node>>, allowed)
_validate_ast_recursive(node, allowed) == ValidateWalk(<<node>>, allowed)
_check_ast_safety_optimized(node) == ValidateWalk(<<node>>, DepotAllowedNodes)

(***************************************************************************)
(* Variable contexts: a dict is the sequence of its items in insertion     *)
(* order, names unique.                                                    *)
(***************************************************************************)
Item(name, val) == [name |-> name, val |-> val]

CtxA1 == <<Item("target_os", PyStr("android")), Item("checkout_ios", PyBool(FALSE))>>
CtxA2 == <<Item("checkout_ios", PyBool(FALSE)), Item("target_os", PyStr("android"))>>
CtxB  == <<Item("target_os", PyStr("ios")), Item("n", PyInt(1)),
           Item("checkout_ios", PyBool(TRUE))>>
\* two contexts whose sorted items have md5 digests with the same first
\* eight hex digits (776ee5e3), as hashlib computes them
CtxN1 == <<Item("n", PyInt(78257))>>
CtxN2 == <<Item("n", PyInt(91193))>>
\* a context with an entry named '__builtins__' (a JSON object)
CtxBuiltins == <<Item("target_os", PyStr("android")),
                 Item("__builtins__", PyDict("n", 1))>>
\* a context with an entry named like a whitelisted builtin
CtxShadow   == <<Item("len", PyInt(0))>>

HasName(items, name) == \E i \in 1..Len(items) : items[i].name = name
Get(items, name) ==
  items[CHOOSE i \in 1..Len(items) : items[i].name = name].val

\* the order of str values under <, as far as the model's strings go
StrOrder == <<"", "__builtins__", "android", "checkout_ios", "checkout_mac",
              "ios", "len", "n", "target_os", "x">>
StrRank(x) == CHOOSE i \in 1..Len(StrOrder) : StrOrder[i] = x
StrLess(a, b) == StrRank(a) < StrRank(b)

\* sorted(items) / sort_keys=True: insertion sort on the names
\* the items left in insertion order
SortItems_InsertionOrder(items) == items

RECURSIVE InsertSorted(_, _)
InsertSorted(sorted, it) ==
  IF sorted = <<>> THEN <<it>>
  ELSE IF StrLess(it.name, Head(sorted).name) THEN <<it>> \o sorted
  ELSE <<Head(sorted)>> \o InsertSorted(Tail(sorted), it)
RECURSIVE SortItems(_)
SortItems(items) ==
  IF items = <<>> THEN <<>>
  ELSE InsertSorted(SortItems(SubSeq(items, 1, Len(items) - 1)), items[Len(items)])

(***************************************************************************)
(* Execution of a compiled expression: eval(code_obj, safe_globals, {}).   *)
(* The outcome is a value, or the exception raised.                        *)
(***************************************************************************)
BuiltinNames == {"len", "str", "int", "bool"}

Ok(v)     == [ok |-> TRUE,  val |-> v,      err |-> ""]
Raise(e)  == [ok |-> FALSE, val |-> PyNone, err |-> e]

\* the dict of builtins the entry points store under '__builtins__'
BuiltinsDict == [t |-> "dict", n |-> 0, s |-> "__builtins__"]

\* the builtins of a frame: what the globals hold under '__builtins__'
\* (eval supplies builtins of its own only when the key is absent; the
\* properties evaluate an expression under the bare variables, and mean
\* the whitelist then)
Builtins(variables) ==
  IF HasName(variables, "__builtins__") THEN Get(variables, "__builtins__")
  ELSE BuiltinsDict

\* a name is looked up in safe_globals (the caller's variables were merged
\* into it), then in the dict found under its key '__builtins__'
LookupName(id, variables) ==
  IF HasName(variables, id) THEN Ok(Get(variables, id))
  ELSE IF Builtins(variables) = BuiltinsDict
  THEN IF id \in BuiltinNames THEN Ok(PyFunc(id)) ELSE Raise("NameError")
  ELSE IF Builtins(variables).t = "dict" /\ Builtins(variables).s = id
  THEN Ok(PyInt(Builtins(variables).n))
  ELSE Raise("NameError")

IsNum(v) == v.t \in {"bool", "int"}

PyEq(a, b) ==
  IF IsNum(a) /\ IsNum(b) THEN a.n = b.n
  ELSE a.t = b.t /\ a.n = b.n /\ a.s = b.s

\* a < b; ordering between a number and a str is a TypeError
PyLess(a, b) ==
  IF IsNum(a) /\ IsNum(b) THEN Ok(PyBool(a.n < b.n))
  ELSE IF a.t = "str" /\ b.t = "str" THEN Ok(PyBool(StrLess(a.s, b.s)))
  ELSE Raise("TypeError")

CompareOp(op, a, b) ==
  CASE op = "Eq"    -> Ok(PyBool(PyEq(a, b)))
    [] op = "NotEq" -> Ok(PyBool(~PyEq(a, b)))
    [] op = "Lt"    -> PyLess(a, b)
    [] op = "Gt"    -> PyLess(b, a)
    [] OTHER        -> Raise("TypeError")

\* int + int; the model binds no two str operands to +
BinaryOp(op, a, b) ==
  IF op = "Add" /\ IsNum(a) /\ IsNum(b) THEN Ok(PyInt(a.n + b.n))
  ELSE Raise("TypeError")

RECURSIVE Eval(_, _)
Eval(node, variables) ==
  CASE node.kind = "Expression" -> Eval(node.children[1], variables)
    [] node.kind = "Constant"   -> Ok(node.val)
    [] node.kind = "Name"       -> LookupName(node.id, variables)
    [] node.kind = "Compare"    ->
         LET l == Eval(node.children[1], variables) IN
         IF ~l.ok THEN l
         ELSE LET r == Eval(node.children[3], variables) IN
              IF ~r.ok THEN r
              ELSE CompareOp(node.children[2].kind, l.val, r.val)
    [] node.kind = "BinOp"      ->
         LET l == Eval(node.children[1], variables) IN
         IF ~l.ok THEN l
         ELSE LET r == Eval(node.children[3], variables) IN
              IF ~r.ok THEN r
              ELSE BinaryOp(node.children[2].kind, l.val, r.val)
    [] node.kind = "BoolOp"     ->
         \* and / or short-circuit and yield an operand
         LET l == Eval(node.children[2], variables) IN
         IF ~l.ok THEN l
         ELSE IF node.children[1].kind = "And"
              THEN IF Truthy(l.val) THEN Eval(node.children[3], variables) ELSE l
              ELSE IF Truthy(l.val) THEN l ELSE Eval(node.children[3], variables)
    [] node.kind = "UnaryOp"    ->
         LET a == Eval(node.children[2], variables) IN
         IF ~a.ok THEN a ELSE Ok(PyBool(~Truthy(a.val)))
    [] OTHER -> Raise("NotExecuted")

(***************************************************************************)
(* Cache keys.  A digest is modelled by a tag in front of the digested     *)
(* text: equal texts give equal digests, different texts different ones.   *)
(***************************************************************************)
\* json.dumps of one value
JsonValue(v) ==
  CASE v.t = "bool" -> <<IF v.n = 1 THEN "true" ELSE "false">>
    [] v.t = "int"  -> <<ToString(v.n)>>
    [] v.t = "str"  -> <<"\"", v.s, "\"">>
    [] v.t = "dict" -> <<"{", "\"", v.s, "\"", ":", ToString(v.n), "}">>
    [] OTHER        -> <<"null">>

\* repr of one value
PyRepr(v) ==
  CASE v.t = "bool" -> <<IF v.n = 1 THEN "True" ELSE "False">>
    [] v.t = "int"  -> <<ToString(v.n)>>
    [] v.t = "str"  -> <<"'", v.s, "'">>
    [] v.t = "dict" -> <<"{", "'", v.s, "'", ":", ToString(v.n), "}">>
    [] OTHER        -> <<"None">>

RECURSIVE JsonItems(_)
JsonItems(items) ==
  IF items = <<>> THEN <<>>
  ELSE <<"\"", Head(items).name, "\"", ":">> \o JsonValue(Head(items).val)
       \o (IF Len(items) > 1 THEN <<",">> ELSE <<>>) \o JsonItems(Tail(items))

\* json.dumps(variables, sort_keys=True, default=str)
JsonDumps(variables) == <<"{">> \o JsonItems(SortItems(variables)) \o <<"}">>

RECURSIVE ReprItems(_)
ReprItems(items) ==
  IF items = <<>> THEN <<>>
  ELSE <<"(", "'", Head(items).name, "'", ",">> \o PyRepr(Head(items).val) \o <<")">>
       \o (IF Len(items) > 1 THEN <<",">> ELSE <<>>) \o ReprItems(Tail(items))

\* str(sorted(variables.items()))
StrSortedItems(variables) == <<"[">> \o ReprItems(SortItems(variables)) \o <<"]">>

_generate_cache_key(condition, variables) ==
  <<"md5">> \o condition \o <<"|">> \o JsonDumps(variables)

\* hashlib.md5(text.encode()).hexdigest()[:8]: 32 bits of the digest.  For
\* the two texts below the digits are the ones hashlib computes; for every
\* other text of the model they are taken to differ from text to text.
Md5Hex8(text) ==
  IF text = <<"[", "(", "'", "n", "'", ",", "78257", ")", "]">>
     \/ text = <<"[", "(", "'", "n", "'", ",", "91193", ")", "]">>
  THEN <<"776ee5e3">>
  ELSE <<"md5[:8]">> \o text

_hash_variables(variables) ==
  IF variables = <<>> THEN <<"empty">>
  ELSE Md5Hex8(StrSortedItems(variables))

_get_cache_key(condition_str, variables_hash) ==
  <<"md5">> \o condition_str \o <<"|">> \o variables_hash

_hash_dict(d) ==
  IF d = <<>> THEN <<"empty">>
  ELSE Md5Hex8(StrSortedItems(d))

DepotCacheKey(condition_str, variables) ==
  condition_str \o <<":">> \o _hash_dict(variables)

(***************************************************************************)
(* Python dicts (insertion ordered) and functools.lru_cache.               *)
(***************************************************************************)
Entry(k, v) == [key |-> k, val |-> v]

DictHas(d, k) == \E i \in 1..Len(d) : d[i].key = k
DictGet(d, k) == d[CHOOSE i \in 1..Len(d) : d[i].key = k].val
DictKeys(d)   == {d[i].key : i \in 1..Len(d)}
\* d[k] = v: an existing key keeps its position, a new key goes last
DictSet(d, k, v) ==
  IF DictHas(d, k)
  THEN [i \in 1..Len(d) |-> IF d[i].key = k THEN Entry(k, v) ELSE d[i]]
  ELSE Append(d, Entry(k, v))
DictRemove(d, k) == SelectSeq(d, LAMBDA e : e.key # k)

\* the eviction taking the newest entries instead of the oldest
RECURSIVE PopOldest_Newest(_, _)
PopOldest_Newest(d, n) ==
  IF n <= 0 THEN [raised |-> FALSE, dict |-> d]
  ELSE IF d = <<>> THEN [raised |-> TRUE, dict |-> d]
  ELSE PopOldest_Newest(SubSeq(d, 1, Len(d) - 1), n - 1)

\* for _ in range(n): d.pop(next(iter(d))) ; next() on an exhausted
\* iterator raises StopIteration
RECURSIVE PopOldest(_, _)
PopOldest(d, n) ==
  IF n <= 0 THEN [raised |-> FALSE, dict |-> d]
  ELSE IF d = <<>> THEN [raised |-> TRUE, dict |-> d]
  ELSE PopOldest(Tail(d), n - 1)

\* the size limit, without the insertion once the cache is full
StoreBounded_SkipWhenFull(cache, size, key, value) ==
  IF Len(cache) >= size THEN [raised |-> FALSE, dict |-> cache]
  ELSE [raised |-> FALSE, dict |-> DictSet(cache, key, value)]

\* "Cache result with size limit": evict the oldest size // 5 entries once
\* the cache holds size entries or more, then insert
StoreBounded(cache, size, key, value) ==
  LET popped == IF Len(cache) >= size
                THEN PopOldest(cache, size \div 5)
                ELSE [raised |-> FALSE, dict |-> cache]
  IN  IF popped.raised THEN [raised |-> TRUE, dict |-> popped.dict]
      ELSE [raised |-> FALSE, dict |-> DictSet(popped.dict, key, value)]

\* lru_cache: entries ordered from least to most recently used
LruHit(lru, k)  == DictHas(lru, k)
LruTouch(lru, k) == Append(DictRemove(lru, k), Entry(k, DictGet(lru, k)))
\* an lru_cache keyed by the first word of the text instead of the text
LruPut_FirstWord(lru, maxsize, k, v) ==
  IF Len(lru) >= maxsize THEN Append(Tail(lru), Entry(SubSeq(k, 1, 1), v))
  ELSE Append(lru, Entry(SubSeq(k, 1, 1), v))

\* a miss of the lru_cache: the result is remembered under its argument,
\* and the least recently used entry leaves a full cache
LruPut(lru, maxsize, k, v) ==
  IF Len(lru) >= maxsize THEN Append(Tail(lru), Entry(k, v))
  ELSE Append(lru, Entry(k, v))

\* maxsize of the three lru_cache decorators
CloudLruMax == 1000
OptLruMax   == 500
DepotLruMax == 200

(***************************************************************************)
(* Compiled code objects.  None is the absent code object.                 *)
(***************************************************************************)
NoCode        == [none |-> TRUE,  tree |-> Op("None")]
Compile(tree) == [none |-> FALSE, tree |-> tree]

\* @lru_cache(maxsize=1000) _validate_and_compile: parse, walk, compile;
\* every exception inside is caught and turns into None.  verdict is "ok",
\* "SyntaxError" or the node kind the walk rejected.
_validate_and_compile(condition, allowed) ==
  LET p == ast_parse(condition) IN
  IF ~p.ok
  THEN [code |-> NoCode, verdict |-> "SyntaxError", steps |-> <<"parse">>]
  ELSE LET v == _validate_ast_security(p.tree, allowed) IN
       IF v # "ok"
       THEN [code |-> NoCode, verdict |-> v, steps |-> <<"parse", "validate">>]
       ELSE [code |-> Compile(p.tree), verdict |-> "ok",
             steps |-> <<"parse", "validate", "compile">>]

\* @lru_cache(maxsize=500) _parse_and_validate: parse, walk; returns the
\* node (held in code.tree) or None
_parse_and_validate(condition_str, allowed) ==
  LET p == ast_parse(condition_str) IN
  IF ~p.ok
  THEN [code |-> NoCode, verdict |-> "SyntaxError", steps |-> <<"parse">>]
  ELSE LET v == _validate_ast_recursive(p.tree, allowed) IN
       IF v # "ok"
       THEN [code |-> NoCode, verdict |-> v, steps |-> <<"parse", "validate">>]
       ELSE [code |-> Compile(p.tree), verdict |-> "ok",
             steps |-> <<"parse", "validate">>]

\* @lru_cache(maxsize=200) _validate_ast_fast: parse, walk, compile
_validate_ast_fast(condition_str) ==
  LET p == ast_parse(condition_str) IN
  IF ~p.ok
  THEN [code |-> NoCode, verdict |-> "SyntaxError", steps |-> <<"parse">>]
  ELSE LET v == _check_ast_safety_optimized(p.tree) IN
       IF v # "ok"
       THEN [code |-> NoCode, verdict |-> v, steps |-> <<"parse", "validate">>]
       ELSE [code |-> Compile(p.tree), verdict |-> "ok",
             steps |-> <<"parse", "validate", "compile">>]

(***************************************************************************)
(* Inputs of the entry points.  A condition or a variables argument may be *)
(* None.                                                                   *)
(***************************************************************************)
CondNone   == [none |-> TRUE,  toks |-> <<>>]
Cond(toks) == [none |-> FALSE, toks |-> toks]
VarsNone    == [none |-> TRUE,  items |-> <<>>]
Vars(items) == [none |-> FALSE, items |-> items]

LiteralTexts ==
  {<<"True">>, <<"true">>, <<"1">>, <<"False">>, <<"false">>, <<"0">>}
\* texts that take a fast path: blank, literal, literal between whitespace
FastTexts == {<<>>, <<" ">>, <<" ", "true", " ">>} \cup LiteralTexts
\* texts that no evaluator accepts: disallowed constructs, a syntax error
RejectedTexts == {TxtCall, TxtAttr, TxtLambda, TxtComp, TxtSyntax}
\* texts that at least one evaluator accepts
AcceptedTexts ==
  {TxtAndroid, TxtEq, <<" ">> \o TxtEq \o <<" ">>, TxtOr, TxtLt, TxtAdd}

\* the calls of the model: the texts whose outcome depends on the variables
\* are called with every context, the others with None and with one context
Inputs ==
  ({CondNone} \cup {Cond(t) : t \in FastTexts \cup RejectedTexts})
     \X {VarsNone, Vars(CtxA1)}
  \cup
  {Cond(t) : t \in AcceptedTexts}
     \X {VarsNone, Vars(CtxA1), Vars(CtxA2), Vars(CtxB)}

\* the blank test without strip()
IsBlank_NoStrip(condition) == condition.none \/ condition.toks = <<>>

\* not condition_str or condition_str.strip() == ""
IsBlank(condition) == condition.none \/ Strip(condition.toks) = <<>>
\* variables or {}
OrEmpty(variables) == IF variables.none THEN <<>> ELSE variables.items

\* safe_globals bound to the caller's dict instead of a new one:
\* safe_globals = variables; safe_globals['__builtins__'] = {...}
safe_globals_Aliased(variables) ==
  LET merged == SelectSeq(OrEmpty(variables),
                          LAMBDA it : it.name # "__builtins__")
                  \o <<Item("__builtins__", BuiltinsDict)>>
  IN  [globals   |-> merged,
       variables |-> IF OrEmpty(variables) = <<>> THEN variables
                     ELSE Vars(merged)]

\* safe_globals = {'__builtins__': {...}}; safe_globals.update(variables):
\* globals is the new dict eval runs in; variables is the object the
\* caller passed, as these statements leave it (it is only read)
safe_globals(variables) ==
  [globals   |-> SelectSeq(<<Item("__builtins__", BuiltinsDict)>>,
                           LAMBDA it : ~HasName(OrEmpty(variables), it.name))
                   \o OrEmpty(variables),
   variables |-> variables]

\* a literal_map without the entries for '1' and '0'
literal_map_WordsOnly(text) == text \in {<<"True">>, <<"true">>}

\* literal_map of the fast path
literal_map(text) == text \in {<<"True">>, <<"true">>, <<"1">>}

(***************************************************************************)
(* State.                                                                  *)
(***************************************************************************)
VARIABLES
  engine,            \* class of the engine object: "cloud", "opt", "depot"
  cache_size,        \* config.cache_size (cloud), self.cache_size (opt)
  _allowed_nodes,    \* self._allowed_nodes (cloud, opt)
  initialized,       \* cloud: initialize() has run
  redis_client,      \* cloud: "None" or "client"
  redis_store,       \* content of the Redis server: set of key/value entries
  local_cache,       \* cloud: self.local_cache
  _result_cache,     \* opt: self._result_cache
  _condition_cache,  \* depot: self._condition_cache
  _compilation_cache,\* opt: self._compilation_cache
  lru,               \* the lru_cache of the engine's validate helper
  stats,             \* the engine's counters
  calls,             \* number of entry-point calls made so far
  executed,          \* texts whose code object has been passed to eval
  validated,         \* texts whose allow-list walk has completed with "ok"
  last_call,         \* the last operation: its inputs and what it did
  frames,            \* concurrent callers: position and locals of each
  _lock,             \* self._lock (cloud, depot): the callers holding it
  _optimizer_instance, \* the DepotToolsVersionOptimizer object, or None
  environment        \* what the version detection reads: clock, repository

vars == <<engine, cache_size, _allowed_nodes, initialized, redis_client,
          redis_store, local_cache, _result_cache, _condition_cache,
          _compilation_cache, lru, stats, calls, executed, validated,
          last_call, frames, _lock, _optimizer_instance, environment>>

Engines == {"cloud", "opt", "depot"}

\* the attributes, had __init__ assigned cache_size as well
DepotAttributes_WithCacheSize ==
  {"cache_dir", "cache_size", "stats", "_lock", "_condition_cache",
   "_ast_cache", "_git_cache"}

\* attributes DepotToolsOptimizer.__init__ assigns; reading any other
\* attribute of the object raises AttributeError
DepotAttributes ==
  {"cache_dir", "stats", "_lock", "_condition_cache", "_ast_cache", "_git_cache"}

NoRet == [result |-> FALSE, cached |-> "n/a", error |-> "n/a"]
\* the fields a call may write, as they are when the call starts
Snapshot(st, cache, redis, lr, comp) ==
  [stats |-> st, cache |-> cache, redis |-> redis, lru |-> lr, comp |-> comp]

NoCall ==
  [op |-> "none", n |-> 0, condition |-> CondNone, variables |-> VarsNone,
   ret |-> NoRet, path |-> "none", steps |-> <<>>, verdict |-> "",
   repeat |-> FALSE, prev_ret |-> NoRet, failed |-> FALSE,
   prev_failed |-> FALSE, prev_op |-> "none",
   pre |-> Snapshot(<<>>, <<>>, {}, <<>>, <<>>)]

\* _optimizer_instance = None: no version optimizer has been constructed
NoOptimizer == [none |-> TRUE]
\* no version detection takes place
NoEnvironment == [none |-> TRUE]

Callers == 1..NumCallers

\* the frame of a caller: where it is in the entry point and its locals
IdleFrame ==
  [pc |-> "idle", blank |-> FALSE, text |-> <<>>, vs |-> <<>>, key |-> <<>>,
   tmp |-> 0, code |-> NoCode, result |-> FALSE, ret |-> NoRet,
   looked |-> FALSE, compiled |-> FALSE]

InitStats(e) ==
  CASE e = "cloud" ->
         [requests |-> 0, cache_hits |-> 0, cache_misses |-> 0, errors |-> 0]
    [] e = "opt" ->
         [cache_hits |-> 0, cache_misses |-> 0, evaluations |-> 0, errors |-> 0]
    [] e = "depot" ->
         \* 'errors' is read with stats.get('errors', 0)
         [gclient_evals |-> 0, cache_hits |-> 0, cache_misses |-> 0, errors |-> 0]

InitAllowed(e) ==
  CASE e = "cloud" -> CloudAllowedNodes
    [] e = "opt"   -> OptAllowedNodes
    [] e = "depot" -> {}

InitEvaluator ==
  /\ engine \in Engines
  /\ _allowed_nodes = InitAllowed(engine)
  /\ initialized = (engine # "cloud")
  /\ redis_client = "None"
  /\ redis_store = {}
  /\ local_cache = <<>>
  /\ _result_cache = <<>>
  /\ _condition_cache = <<>>
  /\ _compilation_cache = <<>>
  /\ lru = <<>>
  /\ stats = InitStats(engine)
  /\ calls = 0
  /\ executed = {}
  /\ validated = {}
  /\ _lock = {}

Init ==
  /\ InitEvaluator
  /\ cache_size \in (IF engine = "depot" THEN {0} ELSE {0, MaxCacheSize})
  /\ frames = [t \in Callers |-> IdleFrame]
  /\ last_call = NoCall
  /\ _optimizer_instance = NoOptimizer
  /\ environment = NoEnvironment

(***************************************************************************)
(* What one call of an entry point does: the new values of the fields it   *)
(* may write, the value it returns, and what it went through.              *)
(***************************************************************************)
Outcome(st, cache, redis, lr, comp, ret, path, steps, verdict, ran) ==
  [stats |-> st, cache |-> cache, redis |-> redis, lru |-> lr, comp |-> comp,
   ret |-> ret, path |-> path, steps |-> steps, verdict |-> verdict,
   ran |-> ran]

\* a counter stepped by two
Bump_Twice(st, counter) == [st EXCEPT ![counter] = @ + 2]
\* self.stats[counter] += 1
Bump(st, counter) == [st EXCEPT ![counter] = @ + 1]

(***************************************************************************)
(* CloudGClientEvaluator                                                   *)
(***************************************************************************)
json_dumps(b) == IF b THEN "true" ELSE "false"
json_loads(x) == x = "true"

StoreHas(store, k) == \E e \in store : e.key = k
StoreGet(store, k) == (CHOOSE e \in store : e.key = k).val
RedisHas(k) == StoreHas(redis_store, k)
RedisGet(k) == StoreGet(redis_store, k)
RedisSet(store, k, v) == {e \in store : e.key # k} \cup {Entry(k, v)}

\* the engine object as its methods see it (self), with the content of the
\* Redis server its client talks to
Self ==
  [redis_client |-> redis_client, redis_store |-> redis_store,
   local_cache |-> local_cache, cache_size |-> cache_size,
   _allowed_nodes |-> _allowed_nodes, stats |-> stats, lru |-> lru]

\* a lookup that gives up when the Redis get fails, without the local cache
_get_from_cache_NoFallback(self, cache_key, get_fails) ==
  LET via_redis == self.redis_client # "None" IN
  IF via_redis /\ get_fails
  THEN [found |-> FALSE, val |-> FALSE, steps |-> <<"redis_get!">>]
  ELSE IF via_redis /\ StoreHas(self.redis_store, cache_key)
  THEN [found |-> TRUE, val |-> json_loads(StoreGet(self.redis_store, cache_key)),
        steps |-> <<"redis_get">>]
  ELSE [found |-> DictHas(self.local_cache, cache_key),
        val   |-> DictHas(self.local_cache, cache_key)
                  /\ DictGet(self.local_cache, cache_key),
        steps |-> (IF via_redis THEN <<"redis_get">> ELSE <<>>)
                  \o <<"local_get">>]

\* a lookup that asks the local cache first and Redis only on a local miss
_get_from_cache_LocalFirst(self, cache_key, get_fails) ==
  LET via_redis == self.redis_client # "None" IN
  IF DictHas(self.local_cache, cache_key)
  THEN [found |-> TRUE, val |-> DictGet(self.local_cache, cache_key),
        steps |-> <<"local_get">>]
  ELSE IF via_redis /\ ~get_fails /\ StoreHas(self.redis_store, cache_key)
  THEN [found |-> TRUE, val |-> json_loads(StoreGet(self.redis_store, cache_key)),
        steps |-> <<"local_get", "redis_get">>]
  ELSE [found |-> FALSE, val |-> FALSE,
        steps |-> <<"local_get">>
                  \o (IF ~via_redis THEN <<>>
                      ELSE IF get_fails THEN <<"redis_get!">>
                      ELSE <<"redis_get">>)]

\* Redis first when a client is configured; a failing get ("redis_get!")
\* is logged and the local cache answers, as it does when Redis has no
\* value for the key
_get_from_cache(self, cache_key, get_fails) ==
  LET via_redis == self.redis_client # "None"
      answered  == via_redis /\ ~get_fails
                   /\ StoreHas(self.redis_store, cache_key)
      before    == IF ~via_redis THEN <<>>
                   ELSE IF get_fails THEN <<"redis_get!">>
                   ELSE <<"redis_get">>
  IN  IF answered
      THEN [found |-> TRUE,
            val   |-> json_loads(StoreGet(self.redis_store, cache_key)),
            steps |-> before]
      ELSE [found |-> DictHas(self.local_cache, cache_key),
            val   |-> DictHas(self.local_cache, cache_key)
                      /\ DictGet(self.local_cache, cache_key),
            steps |-> before \o <<"local_get">>]

\* a store that writes the local cache only when Redis was not written
_set_cache_LocalOnFailure(self, cache_key, value, set_fails) ==
  LET via_redis == self.redis_client # "None" IN
  IF via_redis /\ ~set_fails
  THEN [redis  |-> RedisSet(self.redis_store, cache_key, json_dumps(value)),
        raised |-> FALSE, local |-> self.local_cache,
        steps  |-> <<"redis_setex">>]
  ELSE [redis  |-> self.redis_store, raised |-> FALSE,
        local  |-> DictSet(self.local_cache, cache_key, value),
        steps  |-> (IF via_redis THEN <<"redis_setex!">> ELSE <<>>)
                   \o <<"local_set">>]

\* Redis setex when a client is configured (a failure, "redis_setex!", is
\* logged), then the local cache with its size limit
_set_cache(self, cache_key, value, set_fails) ==
  LET via_redis == self.redis_client # "None"
      stored    == StoreBounded(self.local_cache, self.cache_size, cache_key,
                                value)
  IN  [redis  |-> IF via_redis /\ ~set_fails
                  THEN RedisSet(self.redis_store, cache_key, json_dumps(value))
                  ELSE self.redis_store,
       raised |-> stored.raised,
       local  |-> stored.dict,
       steps  |-> (IF ~via_redis THEN <<>>
                   ELSE IF set_fails THEN <<"redis_setex!">>
                   ELSE <<"redis_setex">>)
                  \o <<"local_set">>]

CloudRet(result, cached, error) ==
  [result |-> result, cached |-> IF cached THEN "True" ELSE "False",
   error |-> error]

\* the except branch without the update of the error counter
CloudFailure_NoCount(cache, st, redis, lr, steps, verdict, ran, error) ==
  [stats |-> st, cache |-> cache, redis |-> redis, lru |-> lr,
   comp |-> _compilation_cache,
   ret |-> [result |-> FALSE, cached |-> "False", error |-> error],
   path |-> "miss", steps |-> steps, verdict |-> verdict, ran |-> ran]

\* the except branch of evaluate_condition
CloudFailure(cache, st, redis, lr, steps, verdict, ran, error) ==
  Outcome(Bump(st, "errors"), cache, redis, lr, _compilation_cache,
          CloudRet(FALSE, FALSE, error), "miss", steps, verdict, ran)

evaluate_condition(self, condition, variables, get_fails, set_fails) ==
  LET st1 == Bump(self.stats, "requests") IN
  IF IsBlank(condition)
  THEN Outcome(st1, self.local_cache, self.redis_store, self.lru,
               _compilation_cache, CloudRet(TRUE, FALSE, ""), "blank", <<>>,
               "", FALSE)
  ELSE
  LET text == Strip(condition.toks)
      vs   == OrEmpty(variables)
  IN
  IF text \in LiteralTexts
  THEN Outcome(st1, self.local_cache, self.redis_store, self.lru,
               _compilation_cache, CloudRet(literal_map(text), TRUE, ""),
               "literal", <<>>, "", FALSE)
  ELSE IF ~Utf8Encodable(text)
  THEN \* combined.encode() in _generate_cache_key raises, inside the try
       [CloudFailure(self.local_cache, st1, self.redis_store, self.lru, <<>>,
                     "", FALSE, "UnicodeEncodeError") EXCEPT !.path = "error"]
  ELSE
  LET cache_key == _generate_cache_key(text, vs)
      got       == _get_from_cache(self, cache_key, get_fails)
  IN
  IF got.found
  THEN Outcome(Bump(st1, "cache_hits"), self.local_cache, self.redis_store,
               self.lru, _compilation_cache, CloudRet(got.val, TRUE, ""),
               "hit", got.steps, "", FALSE)
  ELSE
  LET st2      == Bump(st1, "cache_misses")
      hit      == LruHit(self.lru, text)
      compiled == IF hit
                  THEN [code |-> DictGet(self.lru, text), verdict |-> "",
                        steps |-> <<>>]
                  ELSE _validate_and_compile(text, self._allowed_nodes)
      lru2     == IF hit THEN LruTouch(self.lru, text)
                  ELSE LruPut(self.lru, CloudLruMax, text, compiled.code)
      steps2   == got.steps \o compiled.steps
  IN
  IF compiled.code.none
  THEN CloudFailure(self.local_cache, st2, self.redis_store, lru2, steps2,
                    compiled.verdict, FALSE, "Invalid or unsafe condition")
  ELSE
  LET r == Eval(compiled.code.tree, safe_globals(variables).globals) IN
  IF ~r.ok
  THEN CloudFailure(self.local_cache, st2, self.redis_store, lru2,
                    steps2 \o <<"eval">>, compiled.verdict, TRUE, r.err)
  ELSE
  LET result == Truthy(r.val)
      set    == _set_cache(self, cache_key, result, set_fails)
      steps3 == steps2 \o <<"eval">> \o set.steps
  IN
  IF set.raised
  THEN CloudFailure(self.local_cache, st2, set.redis, lru2, steps3,
                    compiled.verdict, TRUE, "StopIteration")
  ELSE Outcome(st2, set.local, set.redis, lru2, _compilation_cache,
               CloudRet(result, FALSE, ""), "miss", steps3, compiled.verdict,
               TRUE)

\* ghost bookkeeping shared by the entry points of the three classes
Record(condition, variables, o, cache) ==
  /\ stats' = o.stats
  /\ lru' = o.lru
  /\ calls' = calls + 1
  /\ executed' = IF o.ran THEN executed \cup {Strip(condition.toks)} ELSE executed
  /\ validated' = IF o.verdict = "ok" THEN validated \cup {Strip(condition.toks)}
                  ELSE validated
  /\ last_call' =
       [op |-> "eval", n |-> calls + 1, condition |-> condition,
        variables |-> variables, ret |-> o.ret, path |-> o.path,
        steps |-> o.steps, verdict |-> o.verdict,
        repeat |-> /\ last_call.op \in {"eval", "expire"}
                   /\ last_call.condition = condition
                   /\ last_call.variables = variables,
        prev_ret |-> last_call.ret,
        failed |-> o.stats.errors > stats.errors \/ o.path = "raise",
        prev_failed |-> last_call.failed,
        prev_op |-> last_call.op,
        pre |-> Snapshot(stats, cache, redis_store, lru, _compilation_cache)]

\* initialize(): the connection to Redis is established, or it fails and
\* the client is dropped
Initialize(ping_ok) ==
  /\ engine = "cloud" /\ ~initialized
  /\ initialized' = TRUE
  /\ redis_client' = IF ping_ok THEN "client" ELSE "None"
  /\ UNCHANGED <<_optimizer_instance, environment, frames, _lock, engine, cache_size, _allowed_nodes, redis_store, local_cache,
                 _result_cache, _condition_cache, _compilation_cache, lru,
                 stats, calls, executed, validated, last_call>>

\* one call of evaluate_condition on the initialized service
CloudCall(condition, variables, get_fails, set_fails) ==
  /\ engine = "cloud" /\ initialized
  /\ \E o \in {evaluate_condition(Self, condition, variables, get_fails,
                                  set_fails)} :
     /\ local_cache' = o.cache
     /\ redis_store' = o.redis
     /\ Record(condition, variables, o, local_cache)
  /\ UNCHANGED <<_optimizer_instance, environment, frames, _lock, engine, cache_size, _allowed_nodes, initialized, redis_client,
                 _result_cache, _condition_cache, _compilation_cache>>

CloudEvaluate(condition, variables, get_fails, set_fails) ==
  /\ calls < MaxCalls
  /\ CloudCall(condition, variables, get_fails, set_fails)

\* a key of the Redis server reaches its TTL (setex) and is dropped
RedisExpire(k) ==
  /\ engine = "cloud" /\ RedisHas(k)
  /\ redis_store' = {e \in redis_store : e.key # k}
  /\ last_call' = [last_call EXCEPT !.op = "expire"]
  /\ UNCHANGED <<_optimizer_instance, environment, frames, _lock, engine, cache_size, _allowed_nodes, initialized, redis_client,
                 local_cache, _result_cache, _condition_cache,
                 _compilation_cache, lru, stats, calls, executed, validated>>

(***************************************************************************)
(* OptimizedGClientEvaluator                                               *)
(***************************************************************************)
BareRet(result) == [result |-> result, cached |-> "n/a", error |-> "n/a"]
\* no value is returned: the exception leaves the entry point
Propagated(exc) == [result |-> FALSE, cached |-> "n/a", error |-> exc]

\* the OptimizedGClientEvaluator object: the attributes its entry point
\* reads and writes
OptSelf ==
  [stats |-> stats, _result_cache |-> _result_cache, lru |-> lru,
   _compilation_cache |-> _compilation_cache, cache_size |-> cache_size,
   _allowed_nodes |-> _allowed_nodes, redis_store |-> redis_store]

evaluate_condition_optimized(self, condition_str, variables) ==
  LET st1 == Bump(self.stats, "evaluations") IN
  IF IsBlank(condition_str)
  THEN Outcome(st1, self._result_cache, self.redis_store, self.lru, self._compilation_cache,
               BareRet(TRUE), "blank", <<>>, "", FALSE)
  ELSE
  LET text == Strip(condition_str.toks) IN
  IF text \in {<<"True">>, <<"true">>, <<"1">>}
  THEN Outcome(st1, self._result_cache, self.redis_store, self.lru, self._compilation_cache,
               BareRet(TRUE), "literal", <<>>, "", FALSE)
  ELSE IF text \in {<<"False">>, <<"false">>, <<"0">>}
  THEN Outcome(st1, self._result_cache, self.redis_store, self.lru, self._compilation_cache,
               BareRet(FALSE), "literal", <<>>, "", FALSE)
  ELSE IF ~Utf8Encodable(text)
  THEN \* combined.encode('utf-8') in _get_cache_key raises, before the try
       Outcome(st1, self._result_cache, self.redis_store, self.lru, self._compilation_cache,
               Propagated("UnicodeEncodeError"), "raise", <<>>, "", FALSE)
  ELSE
  LET vs        == OrEmpty(variables)
      cache_key == _get_cache_key(text, _hash_variables(vs))
  IN
  IF DictHas(self._result_cache, cache_key)
  THEN Outcome(Bump(st1, "cache_hits"), self._result_cache, self.redis_store, self.lru,
               self._compilation_cache, BareRet(DictGet(self._result_cache, cache_key)),
               "hit", <<"local_get">>, "", FALSE)
  ELSE
  LET st2    == Bump(st1, "cache_misses")
      hit    == LruHit(self.lru, text)
      parsed == IF hit
                THEN [code |-> DictGet(self.lru, text), verdict |-> "", steps |-> <<>>]
                ELSE _parse_and_validate(text, self._allowed_nodes)
      lru2   == IF hit THEN LruTouch(self.lru, text)
                ELSE LruPut(self.lru, OptLruMax, text, parsed.code)
      steps2 == <<"local_get">> \o parsed.steps
  IN
  IF parsed.code.none
  THEN Outcome(Bump(st2, "errors"), self._result_cache, self.redis_store, lru2,
               self._compilation_cache, BareRet(FALSE), "miss", steps2,
               parsed.verdict, FALSE)
  ELSE
  LET known    == DictHas(self._compilation_cache, text)
      comp2    == IF known THEN self._compilation_cache
                  ELSE DictSet(self._compilation_cache, text, Compile(parsed.code.tree))
      code_obj == DictGet(comp2, text)
      steps3   == steps2 \o (IF known THEN <<>> ELSE <<"compile">>) \o <<"eval">>
      r        == Eval(code_obj.tree, safe_globals(variables).globals)
  IN
  IF ~r.ok
  THEN Outcome(Bump(st2, "errors"), self._result_cache, self.redis_store, lru2, comp2,
               BareRet(FALSE), "miss", steps3, parsed.verdict, TRUE)
  ELSE
  LET result == Truthy(r.val)
      stored == StoreBounded(self._result_cache, self.cache_size, cache_key, result)
  IN
  IF stored.raised
  THEN Outcome(Bump(st2, "errors"), stored.dict, self.redis_store, lru2, comp2,
               BareRet(FALSE), "miss", steps3 \o <<"local_set">>,
               parsed.verdict, TRUE)
  ELSE Outcome(st2, stored.dict, self.redis_store, lru2, comp2, BareRet(result),
               "miss", steps3 \o <<"local_set">>, parsed.verdict, TRUE)

\* one call of evaluate_condition_optimized on the engine
OptCall(condition_str, variables) ==
  /\ engine = "opt"
  /\ \E o \in {evaluate_condition_optimized(OptSelf, condition_str, variables)} :
     /\ _result_cache' = o.cache
     /\ _compilation_cache' = o.comp
     /\ Record(condition_str, variables, o, _result_cache)
  /\ UNCHANGED <<_optimizer_instance, environment, frames, _lock, engine, cache_size, _allowed_nodes, initialized, redis_client,
                 redis_store, local_cache, _condition_cache>>

OptEvaluate(condition_str, variables) ==
  /\ calls < MaxCalls
  /\ OptCall(condition_str, variables)

\* clear_caches(): empties the caches and resets every counter
clear_caches ==
  /\ engine = "opt"
  /\ _result_cache' = <<>>
  /\ _compilation_cache' = <<>>
  /\ lru' = <<>>
  /\ stats' = [k \in DOMAIN stats |-> 0]
  /\ last_call' = [NoCall EXCEPT !.op = "clear"]
  /\ UNCHANGED <<_optimizer_instance, environment, frames, _lock, engine, cache_size, _allowed_nodes, initialized, redis_client,
                 redis_store, local_cache, _condition_cache, calls, executed,
                 validated>>

(***************************************************************************)
(* DepotToolsOptimizer                                                     *)
(***************************************************************************)
evaluate_condition_cached(condition_str, variables) ==
  IF IsBlank(condition_str)
  THEN Outcome(stats, _condition_cache, redis_store, lru, _compilation_cache,
               BareRet(TRUE), "blank", <<>>, "", FALSE)
  ELSE
  LET text == Strip(condition_str.toks)
      vs   == OrEmpty(variables)
  IN
  IF text \in LiteralTexts
  THEN Outcome(stats, _condition_cache, redis_store, lru, _compilation_cache,
               BareRet(literal_map(text)), "literal", <<>>, "", FALSE)
  ELSE
  LET cache_key == DepotCacheKey(text, vs) IN
  IF DictHas(_condition_cache, cache_key)
  THEN Outcome(Bump(stats, "cache_hits"), _condition_cache, redis_store, lru,
               _compilation_cache, BareRet(DictGet(_condition_cache, cache_key)),
               "hit", <<"local_get">>, "", FALSE)
  ELSE
  LET st2      == Bump(Bump(stats, "cache_misses"), "gclient_evals")
      hit      == LruHit(lru, text)
      compiled == IF hit
                  THEN [code |-> DictGet(lru, text), verdict |-> "", steps |-> <<>>]
                  ELSE _validate_ast_fast(text)
      lru2     == IF hit THEN LruTouch(lru, text)
                  ELSE LruPut(lru, DepotLruMax, text, compiled.code)
      ran      == ~compiled.code.none
      r        == IF ran THEN Eval(compiled.code.tree,
                                  safe_globals(variables).globals)
                  ELSE Ok(PyBool(FALSE))
      steps2   == <<"local_get">> \o compiled.steps
                  \o (IF ran THEN <<"eval">> ELSE <<>>)
  IN
  IF ~r.ok
  THEN Outcome(Bump(st2, "errors"), _condition_cache, redis_store, lru2,
               _compilation_cache, BareRet(FALSE), "miss", steps2,
               compiled.verdict, ran)
  ELSE IF "cache_size" \notin DepotAttributes
  THEN \* self.cache_size raises AttributeError
       Outcome(Bump(st2, "errors"), _condition_cache, redis_store, lru2,
               _compilation_cache, BareRet(FALSE), "miss", steps2,
               compiled.verdict, ran)
  ELSE
  LET result == Truthy(r.val)
      stored == StoreBounded(_condition_cache, cache_size, cache_key, result)
  IN
  IF stored.raised
  THEN Outcome(Bump(st2, "errors"), stored.dict, redis_store, lru2,
               _compilation_cache, BareRet(FALSE), "miss",
               steps2 \o <<"local_set">>, compiled.verdict, ran)
  ELSE Outcome(st2, stored.dict, redis_store, lru2, _compilation_cache,
               BareRet(result), "miss", steps2 \o <<"local_set">>,
               compiled.verdict, ran)

DepotEvaluate(condition_str, variables) ==
  /\ engine = "depot" /\ calls < MaxCalls
  /\ \E o \in {evaluate_condition_cached(condition_str, variables)} :
     /\ _condition_cache' = o.cache
     /\ Record(condition_str, variables, o, _condition_cache)
  /\ UNCHANGED <<_optimizer_instance, environment, frames, _lock, engine, cache_size, _allowed_nodes, initialized, redis_client,
                 redis_store, local_cache, _result_cache, _compilation_cache>>

\* a Redis call can fail (connection error, timeout) only if it is made:
\* there is a client, and the call gets past the fast paths
RedisFaults(condition) ==
  IF redis_client = "None" \/ IsBlank(condition)
     \/ Strip(condition.toks) \in LiteralTexts
  THEN {FALSE} ELSE BOOLEAN

(***************************************************************************)
(* Specification                                                           *)
(***************************************************************************)
Next ==
  \/ \E ping_ok \in BOOLEAN : Initialize(ping_ok)
  \/ \E in \in Inputs :
       \E gf \in RedisFaults(in[1]), sf \in RedisFaults(in[1]) :
         CloudEvaluate(in[1], in[2], gf, sf)
  \/ \E e \in redis_store : RedisExpire(e.key)
  \/ \E in \in Inputs : OptEvaluate(in[1], in[2])
  \/ clear_caches
  \/ \E in \in Inputs : DepotEvaluate(in[1], in[2])

Spec == Init /\ [][Next]_vars

(***************************************************************************)
(* The same engines, called with every str the callers can pass: the texts *)
(* of Inputs and a text with a lone surrogate.                             *)
(***************************************************************************)
InputsAnyText ==
  Inputs \cup ({Cond(TxtSurrogate)} \X {VarsNone, Vars(CtxA1)})

NextAnyText ==
  \/ \E ping_ok \in BOOLEAN : Initialize(ping_ok)
  \/ \E in \in InputsAnyText :
       \E gf \in RedisFaults(in[1]), sf \in RedisFaults(in[1]) :
         CloudEvaluate(in[1], in[2], gf, sf)
  \/ \E e \in redis_store : RedisExpire(e.key)
  \/ \E in \in InputsAnyText : OptEvaluate(in[1], in[2])
  \/ clear_caches
  \/ \E in \in InputsAnyText : DepotEvaluate(in[1], in[2])

SpecAnyText == Init /\ [][NextAnyText]_vars

(***************************************************************************)
(* The cloud engine next to other instances of the service that share its  *)
(* Redis server: a peer stores the result of an evaluation of its own.     *)
(***************************************************************************)
\* the calls of this model: an expression that evaluates, one that raises,
\* one that is rejected and a literal, under two contexts
InputsTiers ==
  {Cond(TxtEq), Cond(TxtLt), Cond(TxtSyntax), Cond(<<"0">>)}
     \X {Vars(CtxA1), Vars(CtxB)}
\* the evaluations peers store results of
PeerInputs == {TxtEq} \X {CtxA1, CtxB}

\* _set_cache of a peer instance: setex of the result under the key
PeerSet(text, items) ==
  /\ engine = "cloud" /\ initialized
  /\ LET cache_key == _generate_cache_key(text, items)
         compiled  == _validate_and_compile(text, CloudAllowedNodes)
         r         == Eval(compiled.code.tree, safe_globals(Vars(items)).globals)
     IN  /\ ~compiled.code.none /\ r.ok
         /\ ~RedisHas(cache_key)
         /\ redis_store' =
              RedisSet(redis_store, cache_key, json_dumps(Truthy(r.val)))
  /\ last_call' = [last_call EXCEPT !.op = "peer"]
  /\ UNCHANGED <<_optimizer_instance, environment, frames, _lock, engine, cache_size, _allowed_nodes, initialized, redis_client,
                 local_cache, _result_cache, _condition_cache,
                 _compilation_cache, lru, stats, calls, executed, validated>>

InitTiers == Init /\ engine = "cloud"

NextTiers ==
  \/ \E ping_ok \in BOOLEAN : Initialize(ping_ok)
  \/ \E in \in InputsTiers :
       \E gf \in RedisFaults(in[1]), sf \in RedisFaults(in[1]) :
         CloudEvaluate(in[1], in[2], gf, sf)
  \/ \E e \in redis_store : RedisExpire(e.key)
  \/ \E in \in PeerInputs : PeerSet(in[1], in[2])

SpecTiers == InitTiers /\ [][NextTiers]_vars

(***************************************************************************)
(* Concurrent callers.  The cloud service runs evaluate_condition as tasks *)
(* of one event loop: a task runs alone from one await to the next, and    *)
(* the awaits are the Redis get and setex handed to the executor.  The two *)
(* tool evaluators are called from threads: OptimizedGClientEvaluator      *)
(* takes no lock, so its threads interleave between any two accesses of    *)
(* shared state (an augmented assignment is a read and a write);           *)
(* DepotToolsOptimizer runs lookup, evaluation and store under its lock.   *)
(* Every caller makes one call.                                            *)
(***************************************************************************)
ConcurrentInputs ==
  {<<Cond(TxtEq), Vars(CtxA1)>>, <<Cond(TxtOr), Vars(CtxA1)>>,
   <<Cond(TxtSyntax), VarsNone>>, <<Cond(<<"1">>), VarsNone>>}

Acquire(lock, t) == lock \cup {t}
\* a with block that leaves the lock held
Release_Never(lock, t) == lock
Release(lock, t) == lock \ {t}
\* with self._lock: a body without await
WithLock(lock, t) == Release(Acquire(lock, t), t)

NewFrame(in) ==
  [IdleFrame EXCEPT !.blank = IsBlank(in[1]), !.text = Strip(in[1].toks),
                    !.vs = OrEmpty(in[2])]
Returned(f, ret) == [f EXCEPT !.pc = "done", !.ret = ret]

\* evaluate_condition from the end of _get_from_cache to the next await or
\* return; cached_result is found/val
CloudAfterGet(self, f, found, val) ==
  LET g == [f EXCEPT !.looked = TRUE] IN
  IF found
  THEN [stats |-> Bump(self.stats, "cache_hits"), lru |-> self.lru,
        cache |-> self.local_cache,
        frame |-> Returned(g, CloudRet(val, TRUE, ""))]
  ELSE
  LET st2  == Bump(self.stats, "cache_misses")
      hit  == LruHit(self.lru, f.text)
      code == IF hit THEN DictGet(self.lru, f.text)
              ELSE _validate_and_compile(f.text, self._allowed_nodes).code
      lru2 == IF hit THEN LruTouch(self.lru, f.text)
              ELSE LruPut(self.lru, CloudLruMax, f.text, code)
      h    == [g EXCEPT !.compiled = TRUE, !.code = code]
  IN
  IF code.none
  THEN [stats |-> Bump(st2, "errors"), lru |-> lru2,
        cache |-> self.local_cache,
        frame |-> Returned(h, CloudRet(FALSE, FALSE,
                                        "Invalid or unsafe condition"))]
  ELSE
  LET r == Eval(code.tree, safe_globals(Vars(f.vs)).globals) IN
  IF ~r.ok
  THEN [stats |-> Bump(st2, "errors"), lru |-> lru2,
        cache |-> self.local_cache,
        frame |-> Returned(h, CloudRet(FALSE, FALSE, r.err))]
  ELSE IF self.redis_client # "None"
  THEN [stats |-> st2, lru |-> lru2, cache |-> self.local_cache,
        frame |-> [h EXCEPT !.pc = "await_set", !.result = Truthy(r.val)]]
  ELSE
  LET stored == StoreBounded(self.local_cache, self.cache_size, f.key,
                             Truthy(r.val))
  IN  IF stored.raised
      THEN [stats |-> Bump(st2, "errors"), lru |-> lru2,
            cache |-> self.local_cache,
            frame |-> Returned(h, CloudRet(FALSE, FALSE, "StopIteration"))]
      ELSE [stats |-> st2, lru |-> lru2, cache |-> stored.dict,
            frame |-> Returned([h EXCEPT !.result = Truthy(r.val)],
                               CloudRet(Truthy(r.val), FALSE, ""))]

\* evaluate_condition from its start to the await of the Redis get, or to
\* its return when it gets there without awaiting
CloudBegin(self, f) ==
  LET st1 == Bump(self.stats, "requests")
      s1  == [self EXCEPT !.stats = st1]
      same(g) == [stats |-> st1, lru |-> self.lru, cache |-> self.local_cache,
                  frame |-> g]
  IN
  IF f.blank THEN same(Returned(f, CloudRet(TRUE, FALSE, "")))
  ELSE IF f.text \in LiteralTexts
  THEN same(Returned(f, CloudRet(literal_map(f.text), TRUE, "")))
  ELSE IF ~Utf8Encodable(f.text)
  THEN [same(Returned(f, CloudRet(FALSE, FALSE, "UnicodeEncodeError")))
          EXCEPT !.stats = Bump(st1, "errors")]
  ELSE
  LET g == [f EXCEPT !.key = _generate_cache_key(f.text, f.vs)] IN
  IF self.redis_client # "None"
  THEN same([g EXCEPT !.pc = "await_get"])
  ELSE CloudAfterGet(s1, g, DictHas(self.local_cache, g.key),
                     DictHas(self.local_cache, g.key)
                     /\ DictGet(self.local_cache, g.key))

ConcurrentUnchanged ==
  UNCHANGED <<engine, cache_size, _allowed_nodes, initialized, redis_client,
              calls, executed, validated, last_call, _optimizer_instance,
              environment>>

\* a request arrives: a task starts evaluate_condition
TaskBegin(t, in) ==
  /\ engine = "cloud" /\ initialized /\ frames[t].pc = "idle"
  /\ \E o \in {CloudBegin(Self, NewFrame(in))} :
     /\ stats' = o.stats
     /\ lru' = o.lru
     /\ local_cache' = o.cache
     /\ frames' = [frames EXCEPT ![t] = o.frame]
  /\ _lock' = WithLock(_lock, t)
  /\ UNCHANGED <<redis_store, _result_cache, _condition_cache,
                 _compilation_cache>>
  /\ ConcurrentUnchanged

\* the executor hands back the outcome of redis_client.get: the reply of
\* the server, or an exception
TaskGetReturns(t, answer) ==
  /\ engine = "cloud" /\ frames[t].pc = "await_get"
  /\ LET f        == frames[t]
         in_redis == answer = "reply" /\ RedisHas(f.key)
         in_local == DictHas(local_cache, f.key)
     IN  \E o \in {IF in_redis
                   THEN CloudAfterGet(Self, f, TRUE, json_loads(RedisGet(f.key)))
                   ELSE CloudAfterGet(Self, f, in_local,
                                      in_local /\ DictGet(local_cache, f.key))} :
         /\ stats' = o.stats
         /\ lru' = o.lru
         /\ local_cache' = o.cache
         /\ frames' = [frames EXCEPT ![t] = o.frame]
  /\ _lock' = WithLock(_lock, t)
  /\ UNCHANGED <<redis_store, _result_cache, _condition_cache,
                 _compilation_cache>>
  /\ ConcurrentUnchanged

\* the executor hands back the outcome of redis_client.setex; the local
\* store and the return follow
TaskSetReturns(t, answer) ==
  /\ engine = "cloud" /\ frames[t].pc = "await_set"
  /\ LET f      == frames[t]
         stored == StoreBounded(local_cache, cache_size, f.key, f.result)
     IN  /\ redis_store' = IF answer = "reply"
                           THEN RedisSet(redis_store, f.key, json_dumps(f.result))
                           ELSE redis_store
         /\ local_cache' = stored.dict
         /\ stats' = IF stored.raised THEN Bump(stats, "errors") ELSE stats
         /\ frames' = [frames EXCEPT ![t] =
                         Returned(f, IF stored.raised
                                     THEN CloudRet(FALSE, FALSE, "StopIteration")
                                     ELSE CloudRet(f.result, FALSE, ""))]
  /\ _lock' = WithLock(_lock, t)
  /\ UNCHANGED <<lru, _result_cache, _condition_cache, _compilation_cache>>
  /\ ConcurrentUnchanged

\* --- threads of OptimizedGClientEvaluator.evaluate_condition_optimized ---
OptShared ==
  UNCHANGED <<redis_store, local_cache, _condition_cache, _lock>>

\* a thread calls; its first access of shared state is the read half of
\* self._stats['evaluations'] += 1
OptBegin(t, in) ==
  /\ engine = "opt" /\ frames[t].pc = "idle"
  /\ frames' = [frames EXCEPT ![t] =
                  [NewFrame(in) EXCEPT !.pc = "ev_write",
                                       !.tmp = stats["evaluations"]]]
  /\ UNCHANGED <<stats, lru, _result_cache, _compilation_cache>>
  /\ OptShared /\ ConcurrentUnchanged

\* the counter an augmented assignment at this position updates
CounterAt(pc) ==
  CASE pc = "ev_write"                    -> "evaluations"
    [] pc \in {"hit_read", "hit_write"}   -> "cache_hits"
    [] pc \in {"miss_read", "miss_write"} -> "cache_misses"
    [] pc \in {"err_read", "err_write"}   -> "errors"

\* self._stats[k] += 1, first half: the value is read
OptCounterRead(t) ==
  /\ engine = "opt"
  /\ frames[t].pc \in {"hit_read", "miss_read", "err_read"}
  /\ LET f == frames[t] IN
     frames' = [frames EXCEPT ![t] =
       [f EXCEPT !.tmp = stats[CounterAt(f.pc)],
                 !.pc = CASE f.pc = "hit_read"  -> "hit_write"
                          [] f.pc = "miss_read" -> "miss_write"
                          [] f.pc = "err_read"  -> "err_write"]]
  /\ UNCHANGED <<stats, lru, _result_cache, _compilation_cache>>
  /\ OptShared /\ ConcurrentUnchanged

\* self._stats[k] += 1, second half: the value read, plus one, is written;
\* the statements up to the next access of shared state follow
OptCounterWrite(t) ==
  /\ engine = "opt"
  /\ frames[t].pc \in {"ev_write", "hit_write", "miss_write", "err_write"}
  /\ LET g == frames[t]
         f == [g EXCEPT !.tmp = 0]
     IN
     /\ stats' = [stats EXCEPT ![CounterAt(g.pc)] = g.tmp + 1]
     /\ frames' = [frames EXCEPT ![t] =
          CASE f.pc = "ev_write" ->
                 IF f.blank THEN Returned(f, BareRet(TRUE))
                 ELSE IF f.text \in {<<"True">>, <<"true">>, <<"1">>}
                 THEN Returned(f, BareRet(TRUE))
                 ELSE IF f.text \in {<<"False">>, <<"false">>, <<"0">>}
                 THEN Returned(f, BareRet(FALSE))
                 ELSE IF ~Utf8Encodable(f.text)
                 THEN [Returned(f, Propagated("UnicodeEncodeError"))
                         EXCEPT !.pc = "raised"]
                 ELSE [f EXCEPT !.pc = "lookup",
                         !.key = _get_cache_key(f.text, _hash_variables(f.vs))]
            [] f.pc = "hit_write"  -> [f EXCEPT !.pc = "hit_ret"]
            [] f.pc = "miss_write" -> [f EXCEPT !.pc = "parse"]
            [] f.pc = "err_write"  -> Returned(f, BareRet(FALSE))]
  /\ UNCHANGED <<lru, _result_cache, _compilation_cache>>
  /\ OptShared /\ ConcurrentUnchanged

\* if cache_key in self._result_cache
OptLookup(t) ==
  /\ engine = "opt" /\ frames[t].pc = "lookup"
  /\ LET f == frames[t] IN
     frames' = [frames EXCEPT ![t] =
       [f EXCEPT !.looked = TRUE,
                 !.pc = IF DictHas(_result_cache, f.key) THEN "hit_read"
                        ELSE "miss_read"]]
  /\ UNCHANGED <<stats, lru, _result_cache, _compilation_cache>>
  /\ OptShared /\ ConcurrentUnchanged

\* return self._result_cache[cache_key]
OptHitReturn(t) ==
  /\ engine = "opt" /\ frames[t].pc = "hit_ret"
  /\ LET f == frames[t] IN
     frames' = [frames EXCEPT ![t] =
       IF DictHas(_result_cache, f.key)
       THEN Returned(f, BareRet(DictGet(_result_cache, f.key)))
       ELSE [Returned(f, Propagated("KeyError")) EXCEPT !.pc = "raised"]]
  /\ UNCHANGED <<stats, lru, _result_cache, _compilation_cache>>
  /\ OptShared /\ ConcurrentUnchanged

\* ast_node = self._parse_and_validate(condition_str), through lru_cache
OptParse(t) ==
  /\ engine = "opt" /\ frames[t].pc = "parse"
  /\ LET f    == frames[t]
         hit  == LruHit(lru, f.text)
         node == IF hit THEN DictGet(lru, f.text)
                 ELSE _parse_and_validate(f.text, _allowed_nodes).code
     IN  /\ lru' = IF hit THEN LruTouch(lru, f.text)
                   ELSE LruPut(lru, OptLruMax, f.text, node)
         /\ frames' = [frames EXCEPT ![t] =
              IF node.none THEN [f EXCEPT !.pc = "err_read"]
              ELSE [f EXCEPT !.pc = "comp_check", !.code = node]]
  /\ UNCHANGED <<stats, _result_cache, _compilation_cache>>
  /\ OptShared /\ ConcurrentUnchanged

\* if condition_str not in self._compilation_cache
OptCompCheck(t) ==
  /\ engine = "opt" /\ frames[t].pc = "comp_check"
  /\ LET f == frames[t] IN
     frames' = [frames EXCEPT ![t] =
       [f EXCEPT !.pc = IF DictHas(_compilation_cache, f.text)
                        THEN "comp_load" ELSE "comp_store"]]
  /\ UNCHANGED <<stats, lru, _result_cache, _compilation_cache>>
  /\ OptShared /\ ConcurrentUnchanged

\* self._compilation_cache[condition_str] = compile(ast_node, ...)
OptCompStore(t) ==
  /\ engine = "opt" /\ frames[t].pc = "comp_store"
  /\ LET f == frames[t] IN
     /\ _compilation_cache' =
          DictSet(_compilation_cache, f.text, Compile(f.code.tree))
     /\ frames' = [frames EXCEPT ![t] =
                     [f EXCEPT !.pc = "comp_load", !.compiled = TRUE]]
  /\ UNCHANGED <<stats, lru, _result_cache>>
  /\ OptShared /\ ConcurrentUnchanged

\* the entry stored last, whatever its key
CompLoad_Latest(comp, text) == comp[Len(comp)].val
\* self._compilation_cache[condition_str]
CompLoad(comp, text) == DictGet(comp, text)

\* code_obj = self._compilation_cache[condition_str], then the evaluation of
\* code_obj, which touches no shared state; a KeyError or an error of the
\* evaluation is caught by the except branch
OptCompLoad(t) ==
  /\ engine = "opt" /\ frames[t].pc = "comp_load"
  /\ LET f == frames[t] IN
     frames' = [frames EXCEPT ![t] =
       IF ~DictHas(_compilation_cache, f.text)
       THEN [f EXCEPT !.pc = "err_read"]
       ELSE
       LET code == CompLoad(_compilation_cache, f.text)
           r    == Eval(code.tree, safe_globals(Vars(f.vs)).globals)
       IN  IF r.ok
           THEN [f EXCEPT !.pc = "store", !.code = code,
                          !.result = Truthy(r.val)]
           ELSE [f EXCEPT !.pc = "err_read", !.code = code]]
  /\ UNCHANGED <<stats, lru, _result_cache, _compilation_cache>>
  /\ OptShared /\ ConcurrentUnchanged

\* the size limit and self._result_cache[cache_key] = result; return
OptStore(t) ==
  /\ engine = "opt" /\ frames[t].pc = "store"
  /\ LET f      == frames[t]
         stored == StoreBounded(_result_cache, cache_size, f.key, f.result)
     IN  /\ _result_cache' = stored.dict
         /\ frames' = [frames EXCEPT ![t] =
              IF stored.raised THEN [f EXCEPT !.pc = "err_read"]
              ELSE Returned(f, BareRet(f.result))]
  /\ UNCHANGED <<stats, lru, _compilation_cache>>
  /\ OptShared /\ ConcurrentUnchanged

\* --- threads of DepotToolsOptimizer.evaluate_condition_cached ---
\* the statements before "with self._lock"
DepotBegin(t, in) ==
  /\ engine = "depot" /\ frames[t].pc = "idle"
  /\ LET f == NewFrame(in) IN
     frames' = [frames EXCEPT ![t] =
       IF f.blank THEN Returned(f, BareRet(TRUE))
       ELSE IF f.text \in LiteralTexts
       THEN Returned(f, BareRet(literal_map(f.text)))
       ELSE [f EXCEPT !.pc = "want_lock",
                      !.key = DepotCacheKey(f.text, f.vs)]]
  /\ UNCHANGED <<stats, lru, redis_store, local_cache, _result_cache,
                 _condition_cache, _compilation_cache, _lock>>
  /\ ConcurrentUnchanged

\* the body of "with self._lock": lookup, evaluation and store, run while
\* no other thread holds the lock
DepotLocked(t) ==
  /\ engine = "depot" /\ frames[t].pc = "want_lock"
  /\ _lock \subseteq {t}
  /\ LET f == frames[t] IN
     \E o \in {evaluate_condition_cached(Cond(f.text), Vars(f.vs))} :
       /\ stats' = o.stats
       /\ lru' = o.lru
       /\ _condition_cache' = o.cache
       /\ frames' = [frames EXCEPT ![t] =
            Returned([f EXCEPT !.looked = TRUE, !.compiled = o.path = "miss",
                               !.code = IF LruHit(o.lru, f.text)
                                        THEN DictGet(o.lru, f.text)
                                        ELSE NoCode],
                     o.ret)]
  /\ _lock' = WithLock(_lock, t)
  /\ UNCHANGED <<redis_store, local_cache, _result_cache, _compilation_cache>>
  /\ ConcurrentUnchanged

InitConcurrent == Init /\ (engine = "depot" \/ cache_size = MaxCacheSize)

NextConcurrent ==
  \/ \E ping_ok \in BOOLEAN : Initialize(ping_ok)
  \/ \E t \in Callers, in \in ConcurrentInputs : TaskBegin(t, in)
  \/ \E t \in Callers, answer \in {"reply", "raise"} : TaskGetReturns(t, answer)
  \/ \E t \in Callers, answer \in {"reply", "raise"} : TaskSetReturns(t, answer)
  \/ \E t \in Callers, in \in ConcurrentInputs : OptBegin(t, in)
  \/ \E t \in Callers : OptCounterRead(t)
  \/ \E t \in Callers : OptCounterWrite(t)
  \/ \E t \in Callers : OptLookup(t)
  \/ \E t \in Callers : OptHitReturn(t)
  \/ \E t \in Callers : OptParse(t)
  \/ \E t \in Callers : OptCompCheck(t)
  \/ \E t \in Callers : OptCompStore(t)
  \/ \E t \in Callers : OptCompLoad(t)
  \/ \E t \in Callers : OptStore(t)
  \/ \E t \in Callers, in \in ConcurrentInputs : DepotBegin(t, in)
  \/ \E t \in Callers : DepotLocked(t)

SpecConcurrent == InitConcurrent /\ [][NextConcurrent]_vars

(***************************************************************************)
(* The tasks of the cloud service alone.  The event loop starts the        *)
(* handler of every request that arrived; whether and when Redis answers a *)
(* get or a setex is up to the server and the network.                     *)
(***************************************************************************)
InitTasks == InitConcurrent /\ engine = "cloud"

NextTasks ==
  \/ \E ping_ok \in BOOLEAN : Initialize(ping_ok)
  \/ \E t \in Callers, in \in ConcurrentInputs : TaskBegin(t, in)
  \/ \E t \in Callers, answer \in {"reply", "raise"} : TaskGetReturns(t, answer)
  \/ \E t \in Callers, answer \in {"reply", "raise"} : TaskSetReturns(t, answer)

SpecTasksFair ==
  /\ InitTasks /\ [][NextTasks]_vars
  /\ WF_vars(\E ping_ok \in BOOLEAN : Initialize(ping_ok))
  /\ WF_vars(\E t \in Callers, in \in ConcurrentInputs : TaskBegin(t, in))

(***************************************************************************)
(* The batch endpoint of the cloud service.  An element of the             *)
(* 'evaluations' array is a JSON object with a condition and variables, or *)
(* any other JSON value.                                                   *)
(***************************************************************************)
\* an element that is a JSON object; variables is what
\* eval_data.get('variables', {}) yields
ItemObject(condition, variables) ==
  [object |-> TRUE, condition |-> condition, variables |-> variables]
\* an element that is no object (a string, a number, null)
ItemOther ==
  [object |-> FALSE, condition |-> CondNone, variables |-> VarsNone]

BatchItems ==
  {ItemObject(Cond(TxtEq), Vars(CtxA1)),   \* evaluates
   ItemObject(Cond(TxtSyntax), Vars(<<>>)),\* fails to evaluate
   ItemObject(CondNone, Vars(<<>>)),       \* no condition
   ItemObject(Cond(<<>>), Vars(CtxA1)),    \* empty condition
   ItemOther}

\* the longest 'evaluations' array
MaxBatch == 2

Batches == UNION {[1..n -> BatchItems] : n \in 0..MaxBatch}

\* one entry of 'results'
BatchEntry(index, success, error, ret) ==
  [index |-> index, success |-> success, error |-> error, ret |-> ret]

\* results.append({'index': i, 'success': True, **result}) and the state
\* the evaluation o of element i left the engine in
BatchAppend(self, acc, i, text, o) ==
  [self |-> [self EXCEPT !.stats = o.stats, !.local_cache = o.cache,
                         !.redis_store = o.redis, !.lru = o.lru],
   acc  |-> [results   |-> Append(acc.results,
                                  BatchEntry(i - 1, TRUE, o.ret.error, o.ret)),
             executed  |-> IF o.ran THEN acc.executed \cup {text}
                           ELSE acc.executed,
             validated |-> IF o.verdict = "ok" THEN acc.validated \cup {text}
                           ELSE acc.validated]]

\* for i, eval_data in enumerate(evaluations): eval_data.get raises
\* AttributeError on an element that is no object; an element without a
\* condition gets an error entry; the others are evaluated in turn on the
\* engine, each on the state the one before left
RECURSIVE BatchLoop(_, _, _, _, _)
BatchLoop(at, evaluations, i, get_fails, set_fails) ==
  IF i > Len(evaluations)
  THEN [self |-> at.self, acc |-> at.acc, raised |-> ""]
  ELSE IF ~evaluations[i].object
  THEN [self |-> at.self, acc |-> at.acc, raised |-> "AttributeError"]
  ELSE IF evaluations[i].condition.none
          \/ evaluations[i].condition.toks = <<>>
  THEN BatchLoop([at EXCEPT !.acc.results =
                    Append(@, BatchEntry(i - 1, FALSE, "condition is required",
                                         NoRet))],
                 evaluations, i + 1, get_fails, set_fails)
  ELSE BatchLoop(
         BatchAppend(at.self, at.acc, i, Strip(evaluations[i].condition.toks),
                     evaluate_condition(at.self, evaluations[i].condition,
                                        evaluations[i].variables,
                                        get_fails, set_fails)),
         evaluations, i + 1, get_fails, set_fails)

\* the HTTP response: status, the 'success' and 'error' members of the
\* body, and its 'results'
Response(status, success, error, results) ==
  [status |-> status, success |-> success, error |-> error,
   results |-> results]

\* what the error_handler middleware makes of the handler's outcome: an
\* exception that left the handler is answered with 500 and no results, a
\* completed loop with 200 and the results
error_handler(done) ==
  [self |-> done.self, acc |-> done.acc,
   response |-> IF done.raised # ""
                THEN Response(500, FALSE, done.raised, <<>>)
                ELSE Response(200, TRUE, "", done.acc.results)]

\* handle_batch_evaluate: an empty array is answered with 400, any other
\* is looped over
handle_batch_evaluate(self, evaluations, get_fails, set_fails) ==
  IF evaluations = <<>>
  THEN [self |-> self,
        acc |-> [results |-> <<>>, executed |-> {}, validated |-> {}],
        response |-> Response(400, FALSE, "evaluations array is required",
                              <<>>)]
  ELSE error_handler(
         BatchLoop([self |-> self,
                    acc |-> [results |-> <<>>, executed |-> {},
                             validated |-> {}]],
                   evaluations, 1, get_fails, set_fails))

\* a POST /batch-evaluate request is served
BatchEvaluate(evaluations, get_fails, set_fails) ==
  /\ engine = "cloud" /\ initialized /\ calls < MaxCalls
  /\ \E b \in {handle_batch_evaluate(Self, evaluations, get_fails,
                                     set_fails)} :
       /\ stats' = b.self.stats
       /\ local_cache' = b.self.local_cache
       /\ redis_store' = b.self.redis_store
       /\ lru' = b.self.lru
       /\ executed' = executed \cup b.acc.executed
       /\ validated' = validated \cup b.acc.validated
       /\ last_call' = [op |-> "batch", evaluations |-> evaluations,
                        response |-> b.response,
                        pre |-> Snapshot(stats, local_cache, redis_store, lru,
                                         _compilation_cache)]
  /\ calls' = calls + 1
  /\ UNCHANGED <<_optimizer_instance, environment, frames, _lock, engine,
                 cache_size, _allowed_nodes, initialized, redis_client,
                 _result_cache, _condition_cache, _compilation_cache>>

NextBatch ==
  \/ \E ping_ok \in BOOLEAN : Initialize(ping_ok)
  \/ \E evaluations \in Batches :
       \E gf \in {FALSE, redis_client # "None"} :
         BatchEvaluate(evaluations, gf, gf)

SpecBatch == InitTiers /\ [][NextBatch]_vars

(***************************************************************************)
(* Many distinct expressions on one OptimizedGClientEvaluator: the texts   *)
(* 'n > 0', 'n > 1', ... are evaluated one after the other with the same   *)
(* variables, as a caller with generated conditions does.                  *)
(***************************************************************************)
InitManyTexts == Init /\ engine = "opt"

\* the next text that was not evaluated before
EvaluateNextText ==
  /\ calls < MaxTexts
  /\ OptCall(Cond(TxtGt(calls)), Vars(CtxB))

\* the engine object after a call with outcome o
OptAfter(self, o) ==
  [self EXCEPT !.stats = o.stats, !._result_cache = o.cache, !.lru = o.lru,
               !._compilation_cache = o.comp]

\* for condition in test_conditions: evaluate_condition_fast(condition,
\* test_vars), for the texts number lo to hi: the loop over lo..hi is the
\* loop over the first half followed by the loop over the second half
RECURSIVE ForEachCondition(_, _, _, _)
ForEachCondition(self, lo, hi, test_vars) ==
  IF lo > hi THEN self
  ELSE IF lo = hi
  THEN OptAfter(self, evaluate_condition_optimized(self, Cond(TxtGt(lo)),
                                                   test_vars))
  ELSE LET mid   == (lo + hi) \div 2
           first == ForEachCondition(self, lo, mid, test_vars)
       IN  \* the first half has run to its end when the second starts
           IF DOMAIN first = DOMAIN self
           THEN ForEachCondition(first, mid + 1, hi, test_vars)
           ELSE first

\* a script's warm-up loop on the fresh engine: every text is evaluated
\* once, in order
Warmup ==
  /\ engine = "opt" /\ calls = 0
  /\ \E e \in {ForEachCondition(OptSelf, 0, MaxTexts - 1, Vars(CtxB))} :
       /\ stats' = e.stats
       /\ _result_cache' = e._result_cache
       /\ lru' = e.lru
       /\ _compilation_cache' = e._compilation_cache
       /\ executed' = executed \cup DictKeys(e._compilation_cache)
       /\ validated' = validated \cup DictKeys(e._compilation_cache)
  /\ calls' = MaxTexts
  /\ last_call' = [NoCall EXCEPT !.op = "loop", !.n = MaxTexts]
  /\ UNCHANGED <<_optimizer_instance, environment, frames, _lock, engine,
                 cache_size, _allowed_nodes, initialized, redis_client,
                 redis_store, local_cache, _condition_cache>>

NextManyTexts == Warmup \/ EvaluateNextText

SpecManyTexts == InitManyTexts /\ [][NextManyTexts]_vars

(***************************************************************************)
(* DepotToolsVersionOptimizer (optimization/depot_tools_optimizer.py) and  *)
(* the module functions on its global instance.  The environment is what   *)
(* detection reads: the clock (time.time(), whole seconds), the commit     *)
(* git rev-parse HEAD prints in the root (0: git fails there), and whether *)
(* the root directory still exists.  A version is the method that produced *)
(* it and the number in it: git-<commit>, dir-<mtime>, unknown-<time>.     *)
(***************************************************************************)
\* self._cache_duration = 300
_cache_duration == 300
\* the clock when the process starts: time.time() is the seconds since
\* 1970, far more than _cache_duration
Epoch == 1000
\* os.path.getmtime of the root directory
RootMTime == 7

NoVersion          == [method |-> "none",    id |-> 0]
GitVersion(commit) == [method |-> "git",     id |-> commit]
DirVersion(mtime)  == [method |-> "dir",     id |-> mtime]
UnknownVersion(t)  == [method |-> "unknown", id |-> t]

Environment(now, head, root) ==
  [none |-> FALSE, now |-> now, head |-> head, root |-> root]

\* the environments a process can start in: the root exists (__init__ found
\* it or fell back to the working directory), with or without a repository
StartEnvironments == {Environment(Epoch, head, "dir") : head \in {0, 1}}

\* __init__: no version cached, timestamp 0, nothing in the lru_cache of
\* _get_git_version_cached
NewOptimizer ==
  [none |-> FALSE, _version_cache |-> NoVersion, _cache_timestamp |-> 0,
   lru |-> [cached |-> FALSE, value |-> NoVersion]]

\* subprocess.run(['git', 'rev-parse', 'HEAD'], cwd=root): the version of
\* the commit, or None when git fails or the root is gone
GitRevParse(env) ==
  IF env.root = "dir" /\ env.head # 0 THEN GitVersion(env.head) ELSE NoVersion

\* @lru_cache(maxsize=32) _get_git_version_cached(root_hash): the root of
\* an object never changes, so the cache has one key; a remembered result
\* (None included) is returned without running git
_get_git_version_cached(self, env) ==
  IF self.lru.cached
  THEN [self |-> self, value |-> self.lru.value]
  ELSE [self |-> [self EXCEPT !.lru = [cached |-> TRUE,
                                       value |-> GitRevParse(env)]],
        value |-> GitRevParse(env)]

\* the fallback taking the clock where the code takes the directory's
\* modification time
_get_fallback_version_Clock(env) == UnknownVersion(env.now)

\* _get_fallback_version: none of the files exists in the model's root, so
\* it is the directory's modification time, or the clock when getmtime
\* raises OSError
_get_fallback_version(env) ==
  IF env.root = "dir" THEN DirVersion(RootMTime) ELSE UnknownVersion(env.now)

\* what detection finds in an environment when nothing is remembered
Detect(env) ==
  IF GitRevParse(env) # NoVersion THEN GitRevParse(env)
  ELSE _get_fallback_version(env)

\* get_version(force_refresh): the cached version while it is fresh, else
\* detection and an update of the cache with the time read at entry
get_version(self, env, force_refresh) ==
  IF /\ ~force_refresh
     /\ self._version_cache # NoVersion
     /\ env.now - self._cache_timestamp < _cache_duration
  THEN [self |-> self, version |-> self._version_cache]
  ELSE LET g       == _get_git_version_cached(self, env)
           version == IF g.value # NoVersion THEN g.value
                      ELSE _get_fallback_version(env)
       IN  [self |-> [g.self EXCEPT !._version_cache = version,
                                    !._cache_timestamp = env.now],
            version |-> version]

\* get_detailed_info: the dict literal calls get_version() first and reads
\* the clock for 'cache_valid' after it; elapsed is the time between
get_detailed_info(self, env, elapsed) ==
  LET g == get_version(self, env, FALSE) IN
  [self |-> g.self,
   info |-> [version     |-> g.version,
             cache_valid |-> (env.now + elapsed) - g.self._cache_timestamp
                               < _cache_duration,
             detection_method |-> IF g.self._version_cache.method = "git"
                                  THEN "git" ELSE "fallback"]]

\* with _instance_lock: if _optimizer_instance is None: construct it
Instance ==
  IF _optimizer_instance.none THEN NewOptimizer ELSE _optimizer_instance

NoInfo == [version |-> NoVersion, cache_valid |-> FALSE,
           detection_method |-> "fallback"]

\* ghost: the operation last performed on the optimizer, what it returned,
\* the operation before it, and the object and the environment as they
\* were when it started
VersionCall(op, version, info) ==
  [op |-> op, version |-> version, info |-> info, prev_op |-> last_call.op,
   pre |-> Instance, env |-> environment]

\* the evaluator of the behaviour takes no step
EvaluatorUnchanged ==
  UNCHANGED <<engine, cache_size, _allowed_nodes, initialized, redis_client,
              redis_store, local_cache, _result_cache, _condition_cache,
              _compilation_cache, lru, stats, executed, validated, frames,
              _lock>>

depot_tools_version ==
  /\ ~environment.none /\ calls < MaxOps
  /\ \E g \in {get_version(Instance, environment, FALSE)} :
       /\ _optimizer_instance' = g.self
       /\ last_call' = VersionCall("get_version", g.version, NoInfo)
  /\ calls' = calls + 1
  /\ UNCHANGED environment
  /\ EvaluatorUnchanged

refresh_depot_tools_version ==
  /\ ~environment.none /\ calls < MaxOps
  /\ \E g \in {get_version(Instance, environment, TRUE)} :
       /\ _optimizer_instance' = g.self
       /\ last_call' = VersionCall("refresh", g.version, NoInfo)
  /\ calls' = calls + 1
  /\ UNCHANGED environment
  /\ EvaluatorUnchanged

depot_tools_info(elapsed) ==
  /\ ~environment.none /\ calls < MaxOps
  /\ \E g \in {get_detailed_info(Instance, environment, elapsed)} :
       /\ _optimizer_instance' = g.self
       /\ last_call' = VersionCall("info", g.info.version, g.info)
  /\ environment' = [environment EXCEPT !.now = @ + elapsed]
  /\ calls' = calls + 1
  /\ EvaluatorUnchanged

\* invalidate_cache() on the instance: cache, timestamp and the lru_cache
\* of _get_git_version_cached are cleared
invalidate_cache ==
  /\ ~_optimizer_instance.none /\ calls < MaxOps
  /\ _optimizer_instance' = NewOptimizer
  /\ last_call' = VersionCall("invalidate", NoVersion, NoInfo)
  /\ calls' = calls + 1
  /\ UNCHANGED environment
  /\ EvaluatorUnchanged

\* time passes
Tick(d) ==
  /\ ~environment.none /\ calls < MaxOps
  /\ environment' = [environment EXCEPT !.now = @ + d]
  /\ calls' = calls + 1
  /\ UNCHANGED <<_optimizer_instance, last_call>>
  /\ EvaluatorUnchanged

\* a new commit becomes HEAD of the repository in the root
Commit ==
  /\ ~environment.none /\ calls < MaxOps
  /\ environment.root = "dir" /\ environment.head \in {0, 1}
  /\ environment' = [environment EXCEPT !.head = @ + 1]
  /\ calls' = calls + 1
  /\ UNCHANGED <<_optimizer_instance, last_call>>
  /\ EvaluatorUnchanged

\* the root directory is removed
RemoveRoot ==
  /\ ~environment.none /\ calls < MaxOps
  /\ environment.root = "dir"
  /\ environment' = [environment EXCEPT !.root = "gone"]
  /\ calls' = calls + 1
  /\ UNCHANGED <<_optimizer_instance, last_call>>
  /\ EvaluatorUnchanged

InitVersion ==
  /\ InitEvaluator /\ engine = "depot" /\ cache_size = 0
  /\ frames = [t \in Callers |-> IdleFrame]
  /\ last_call = NoCall
  /\ _optimizer_instance = NoOptimizer
  /\ environment \in StartEnvironments

NextVersion ==
  \/ depot_tools_version
  \/ refresh_depot_tools_version
  \/ \E elapsed \in {0, 1} : depot_tools_info(elapsed)
  \/ invalidate_cache
  \/ \E d \in {1, _cache_duration - 1, _cache_duration} : Tick(d)
  \/ Commit
  \/ RemoveRoot

SpecVersion == InitVersion /\ [][NextVersion]_vars

(***************************************************************************)
(* Threads calling get_version() on one DepotToolsVersionOptimizer.  The   *)
(* two 'with self._cache_lock' blocks hold no blocking operation and are   *)
(* one step each; detection runs between them without the lock.  The       *)
(* repository and the root do not change while the threads run; the clock  *)
(* does.  A root that was removed after construction stays removed.        *)
(***************************************************************************)
VersionFrame ==
  [pc |-> "idle", current_time |-> 0, version |-> NoVersion,
   ret |-> NoVersion, detected |-> FALSE]

\* the version ever returned to a thread, and the number of calls begun
ThreadsCall(returned, begun) ==
  [op |-> "threads", returned |-> returned, begun |-> begun]

\* version = git's result if there is one, else the fallback
VersionOr(value, env) ==
  IF value # NoVersion THEN value ELSE _get_fallback_version(env)

VersionThreadsUnchanged ==
  UNCHANGED <<engine, cache_size, _allowed_nodes, initialized, redis_client,
              redis_store, local_cache, _result_cache, _condition_cache,
              _compilation_cache, lru, stats, executed, validated, _lock>>

\* current_time = time.time()
VersionBegin(t) ==
  /\ frames[t].pc \in {"idle", "done"}
  /\ last_call.begun < MaxThreadCalls
  /\ frames' = [frames EXCEPT ![t] =
                  [VersionFrame EXCEPT !.pc = "check",
                                       !.current_time = environment.now]]
  /\ last_call' = [last_call EXCEPT !.begun = @ + 1]
  /\ UNCHANGED <<_optimizer_instance, environment, calls>>
  /\ VersionThreadsUnchanged

\* with self._cache_lock: return the cached version if it is fresh
VersionCheck(t) ==
  /\ frames[t].pc = "check"
  /\ IF /\ _optimizer_instance._version_cache # NoVersion
        /\ frames[t].current_time - _optimizer_instance._cache_timestamp
             < _cache_duration
     THEN /\ frames' = [frames EXCEPT ![t].pc = "done",
                                      ![t].ret = _optimizer_instance._version_cache]
          /\ last_call' = [last_call EXCEPT !.returned =
                             @ \cup {_optimizer_instance._version_cache}]
     ELSE /\ frames' = [frames EXCEPT ![t].pc = "detect"]
          /\ UNCHANGED last_call
  /\ UNCHANGED <<_optimizer_instance, environment, calls>>
  /\ VersionThreadsUnchanged

\* self._get_git_version_cached(root_hash): a remembered result is used,
\* together with the fallback when it is None; else git is started
VersionDetect(t) ==
  /\ frames[t].pc = "detect"
  /\ frames' = [frames EXCEPT ![t] =
       IF _optimizer_instance.lru.cached
       THEN [@ EXCEPT !.pc = "update", !.detected = TRUE,
                      !.version = VersionOr(_optimizer_instance.lru.value,
                                            environment)]
       ELSE [@ EXCEPT !.pc = "git"]]
  /\ UNCHANGED <<_optimizer_instance, environment, calls, last_call>>
  /\ VersionThreadsUnchanged

\* git rev-parse HEAD ends: the lru_cache remembers the result, and the
\* fallback follows when it is None
VersionGitDone(t) ==
  /\ frames[t].pc = "git"
  /\ _optimizer_instance' =
       [_optimizer_instance EXCEPT !.lru = [cached |-> TRUE,
                                            value |-> GitRevParse(environment)]]
  /\ frames' = [frames EXCEPT ![t].pc = "update", ![t].detected = TRUE,
                              ![t].version = VersionOr(GitRevParse(environment),
                                                       environment)]
  /\ UNCHANGED <<environment, calls, last_call>>
  /\ VersionThreadsUnchanged

\* with self._cache_lock: the cache and its timestamp are written; return
VersionUpdate(t) ==
  /\ frames[t].pc = "update"
  /\ _optimizer_instance' =
       [_optimizer_instance EXCEPT !._version_cache = frames[t].version,
                                   !._cache_timestamp = frames[t].current_time]
  /\ frames' = [frames EXCEPT ![t].pc = "done", ![t].ret = frames[t].version]
  /\ last_call' = [last_call EXCEPT !.returned = @ \cup {frames[t].version}]
  /\ UNCHANGED <<environment, calls>>
  /\ VersionThreadsUnchanged

\* the clock advances while the threads run
ThreadsTick(d) ==
  /\ calls < MaxThreadCalls
  /\ environment' = [environment EXCEPT !.now = @ + d]
  /\ calls' = calls + 1
  /\ UNCHANGED <<_optimizer_instance, frames, last_call>>
  /\ VersionThreadsUnchanged

InitVersionThreads ==
  /\ InitEvaluator /\ engine = "depot" /\ cache_size = 0
  /\ frames = [t \in Callers |-> VersionFrame]
  /\ _optimizer_instance = NewOptimizer
  /\ environment \in
       StartEnvironments \cup {Environment(Epoch, 0, "gone")}
  /\ last_call = ThreadsCall({}, 0)

NextVersionThreads ==
  \/ \E t \in Callers :
       \/ VersionBegin(t)
       \/ VersionCheck(t)
       \/ VersionDetect(t)
       \/ VersionGitDone(t)
       \/ VersionUpdate(t)
  \/ \E d \in {1, _cache_duration - 1} : ThreadsTick(d)

SpecVersionThreads == InitVersionThreads /\ [][NextVersionThreads]_vars

(***************************************************************************)
(* A result cache that fills up: an engine configured with cache_size =    *)
(* EvictSize serves the texts 'n > 0', 'n > 1', ... with the same          *)
(* variables; each call takes the first text again or the next new one.    *)
(***************************************************************************)
InitEvict ==
  /\ InitEvaluator /\ engine \in {"cloud", "opt"}
  /\ cache_size = EvictSize
  /\ frames = [t \in Callers |-> IdleFrame]
  /\ last_call = NoCall
  /\ _optimizer_instance = NoOptimizer
  /\ environment = NoEnvironment

\* the texts a call can take: the first one, and the first one the engine
\* was not given yet
EvictTexts ==
  {0} \cup {k \in 0..MaxEvictCalls :
              /\ TxtGt(k) \notin validated
              /\ \A j \in 0..(k - 1) : TxtGt(j) \in validated}

EvictEvaluate(k) ==
  /\ calls < MaxEvictCalls
  /\ \/ CloudCall(Cond(TxtGt(k)), Vars(CtxB), FALSE, FALSE)
     \/ OptCall(Cond(TxtGt(k)), Vars(CtxB))

NextEvict ==
  \/ \E ping_ok \in BOOLEAN : Initialize(ping_ok)
  \/ \E k \in EvictTexts : EvictEvaluate(k)

SpecEvict == InitEvict /\ [][NextEvict]_vars

(***************************************************************************)
(* The namespace of the execution step: the engines are called with        *)
(* variable contexts that hold an entry named '__builtins__' or an entry   *)
(* named like a whitelisted builtin, and with expressions that name a      *)
(* builtin or a name that only such an entry can bind.                     *)
(***************************************************************************)
NamespaceInputs ==
  {Cond(t) : t \in {TxtGt(0), TxtBuiltin, TxtEq}}
    \X {VarsNone, Vars(CtxA1), Vars(CtxBuiltins), Vars(CtxShadow)}

NamespaceEvaluate(condition, variables) ==
  \/ CloudEvaluate(condition, variables, FALSE, FALSE)
  \/ OptEvaluate(condition, variables)
  \/ DepotEvaluate(condition, variables)

NextNamespace ==
  \/ \E ping_ok \in BOOLEAN : Initialize(ping_ok)
  \/ \E in \in NamespaceInputs : NamespaceEvaluate(in[1], in[2])

SpecNamespace == Init /\ [][NextNamespace]_vars

(***************************************************************************)
(* Cache keys over variable contexts whose truncated digests coincide:     *)
(* the engines are called with 'n == 78257' and with 'n > 0' under the two *)
(* contexts, and under a context with another digest.                      *)
(***************************************************************************)
KeyInputs ==
  {Cond(t) : t \in {TxtNEq, TxtGt(0)}}
    \X {Vars(CtxN1), Vars(CtxN2), Vars(CtxB), Vars(CtxA1), Vars(CtxA2)}

NextKeys ==
  \/ \E ping_ok \in BOOLEAN : Initialize(ping_ok)
  \/ \E in \in KeyInputs : NamespaceEvaluate(in[1], in[2])

SpecKeys == Init /\ [][NextKeys]_vars

(***************************************************************************)
(* Vocabulary of the properties.                                           *)
(***************************************************************************)
\* the result cache of the engine's class
ResultCache ==
  CASE engine = "cloud" -> local_cache
    [] engine = "opt"   -> _result_cache
    [] engine = "depot" -> _condition_cache

\* the allow-list the engine's walk checks against
Allowed == IF engine = "depot" THEN DepotAllowedNodes ELSE _allowed_nodes

\* the node kinds of a tree, by descent through the children
RECURSIVE NodeKinds(_)
NodeKinds(node) ==
  {node.kind} \cup
  UNION {NodeKinds(node.children[i]) : i \in 1..Len(node.children)}

\* the last operation was a call of the entry point
Called == last_call.op = "eval"
LastText == Strip(last_call.condition.toks)
LastVars == OrEmpty(last_call.variables)
LastStep(name) == \E i \in 1..Len(last_call.steps) : last_call.steps[i] = name

\* the cache key the engine derives for a call
KeyOf(text, items) ==
  CASE engine = "cloud" -> _generate_cache_key(text, items)
    [] engine = "opt"   -> _get_cache_key(text, _hash_variables(items))
    [] engine = "depot" -> DepotCacheKey(text, items)

\* the condition of the call is None, empty or whitespace only
LastBlank == last_call.condition.none \/ LastText = <<>>
\* the condition of the call is blank or, trimmed, one of the six literals
LastFast ==
  LastBlank \/ LastText \in {<<"True">>, <<"true">>, <<"1">>,
                              <<"False">>, <<"false">>, <<"0">>}
LastKey == KeyOf(LastText, LastVars)

\* the text parses and every node of its tree is on the allow-list
Accepted(text) ==
  ast_parse(text).ok /\ NodeKinds(ast_parse(text).tree) \subseteq Allowed

\* the text passes validation and its execution under the items returns
Succeeds(text, items) ==
  Accepted(text) /\ Eval(ast_parse(text).tree, items).ok

(***************************************************************************)
(* C1.  In each evaluator the execution step happens only after the        *)
(* allow-list walk of that expression's whole tree has completed without   *)
(* rejection: every text that was ever executed had its walk complete with *)
(* "ok" and has only allowed node kinds, the walk of a call precedes its   *)
(* execution step, and a text with a disallowed node kind is never         *)
(* executed.                                                               *)
(***************************************************************************)
C1_ValidatedBeforeExecuted ==
  /\ \A t \in executed : t \in validated /\ Accepted(t)
  /\ Called /\ LastStep("eval") =>
       /\ LastText \in validated
       /\ \A i, j \in 1..Len(last_call.steps) :
            last_call.steps[i] = "validate" /\ last_call.steps[j] = "eval" => i < j
  /\ \A t \in RejectedTexts : t \notin executed

\* an expression with a function call was rejected by the walk while
\* another expression has been executed
C1_Witness ==
  /\ Called /\ last_call.verdict = "Call" /\ ~LastStep("eval")
  /\ executed # {}

(***************************************************************************)
(* C2.  The validator fails closed: the walk accepts a parsed tree exactly *)
(* when the kind of every node, operator and context nodes included, is in *)
(* the allowed set; a rejection names a kind of the tree that is not in    *)
(* the set; and the allowed set stays as constructed.                      *)
(***************************************************************************)
C2_FailsClosed ==
  /\ _allowed_nodes = InitAllowed(engine)
  /\ Called /\ last_call.verdict \notin {"", "SyntaxError"} =>
       LET kinds == NodeKinds(ast_parse(LastText).tree) IN
       /\ last_call.verdict = "ok" <=> kinds \subseteq Allowed
       /\ last_call.verdict # "ok" => last_call.verdict \in kinds \ Allowed

\* the walk rejected an operator node: Add is not on the list
C2_Witness == Called /\ last_call.verdict = "Add"

C4_AndroidScenario ==
  Called /\ engine = "cloud"
    /\ LastText = TxtAndroid /\ last_call.variables = Vars(CtxA1) =>
    /\ last_call.verdict \in {"", "ok"}
    /\ last_call.ret.result
    /\ last_call.n = 1 => last_call.path = "miss" /\ last_call.ret.cached # "True"
    /\ last_call.n = 2 /\ last_call.repeat =>
         last_call.path = "hit" /\ last_call.ret.cached # "False"

(***************************************************************************)
(* C5.  Cache-key derivation is order-independent: the key derived for an  *)
(* expression and a variable context equals the key derived for the same   *)
(* expression and any reordering of the context's items.                   *)
(***************************************************************************)
Reordered(items, p) == [i \in 1..Len(items) |-> items[p[i]]]

C6_FastPathValues ==
  Called =>
    /\ LastBlank => last_call.ret.result
    /\ ~LastBlank /\ LastText \in {<<"true">>, <<"True">>, <<"1">>} =>
         last_call.ret.result
    /\ ~LastBlank /\ LastText \in {<<"false">>, <<"False">>, <<"0">>} =>
         ~last_call.ret.result

\* ' true ' was answered true by an engine that holds cached results
C6_Witness ==
  /\ Called /\ last_call.condition = Cond(<<" ", "true", " ">>)
  /\ last_call.variables = Vars(CtxA1)
  /\ last_call.ret.result /\ ResultCache # <<>>

(***************************************************************************)
(* C7.  A call whose condition is blank or one of the six literals leaves  *)
(* the result cache (local and Redis), the compiled-expression caches and  *)
(* the hit, miss and evaluation counters as they were, and goes through no *)
(* parse, compile or cache-tier step.                                      *)
(***************************************************************************)
C7_FastPathFrame ==
  Called /\ LastFast =>
    /\ ResultCache = last_call.pre.cache
    /\ redis_store = last_call.pre.redis
    /\ lru = last_call.pre.lru
    /\ _compilation_cache = last_call.pre.comp
    /\ stats.cache_hits = last_call.pre.stats.cache_hits
    /\ stats.cache_misses = last_call.pre.stats.cache_misses
    /\ engine = "depot" => stats.gclient_evals = last_call.pre.stats.gclient_evals
    /\ last_call.steps = <<>>

\* '0' was answered by the cloud engine while its local cache and Redis
\* held an entry
C7_Witness ==
  /\ Called /\ ~LastBlank /\ LastText = <<"0">>
  /\ engine = "cloud" /\ ResultCache # <<>> /\ redis_store # {}

(***************************************************************************)
(* C8.  The number of entries of the local result cache never exceeds the  *)
(* configured maximum size.                                                *)
(***************************************************************************)
C8_CacheBounded == engine # "depot" => Len(ResultCache) <= cache_size

(***************************************************************************)
(* C9.  A call with an expression that fails parsing or the allow-list     *)
(* walk leaves the result cache (local and Redis) unchanged and without an *)
(* entry for the call's key, reports a failure (result false, error        *)
(* counter up by one, an error message where the result carries one), and  *)
(* is a miss each time it is made.                                         *)
(***************************************************************************)
C9_InvalidNotCached ==
  Called /\ ~LastFast /\ ~Accepted(LastText) =>
    /\ ResultCache = last_call.pre.cache
    /\ redis_store = last_call.pre.redis
    /\ ~DictHas(ResultCache, LastKey) /\ ~RedisHas(LastKey)
    /\ last_call.path = "miss"
    /\ stats.cache_misses = last_call.pre.stats.cache_misses + 1
    /\ ~last_call.ret.result
    /\ stats.errors = last_call.pre.stats.errors + 1
    /\ engine = "cloud" => last_call.ret.error = "Invalid or unsafe condition"
    /\ ~LastStep("eval")

\* a rejected expression was called again with the same variables and
\* missed again
C9_Witness ==
  /\ Called /\ last_call.repeat /\ ~LastFast /\ ~Accepted(LastText)
  /\ last_call.path = "miss"

(***************************************************************************)
(* C10.  When the execution of a validated expression raises, the call     *)
(* returns false, reports the error where the result carries one,          *)
(* increments the error counter by exactly one and leaves the result cache *)
(* (local and Redis) unchanged.                                            *)
(***************************************************************************)
C10_RuntimeErrorNotCached ==
  Called /\ LastStep("eval") /\ ~Eval(ast_parse(LastText).tree, LastVars).ok =>
    /\ ~last_call.ret.result
    /\ stats.errors = last_call.pre.stats.errors + 1
    /\ ResultCache = last_call.pre.cache
    /\ redis_store = last_call.pre.redis
    /\ ~DictHas(ResultCache, LastKey) /\ ~RedisHas(LastKey)
    /\ engine = "cloud" =>
         /\ last_call.ret.error \in {"NameError", "TypeError"}
         /\ last_call.ret.cached = "False"

\* an ordering comparison of a str with an int raised in the cloud engine
\* while its local cache held an entry
C10_Witness ==
  /\ Called /\ LastStep("eval") /\ engine = "cloud"
  /\ last_call.ret.error = "TypeError" /\ ResultCache # <<>>

(***************************************************************************)
(* C11.  No error escapes the evaluation boundary: for every condition     *)
(* string and every variable context, a call of the entry point ends by    *)
(* returning a value, never by raising.                                    *)
(***************************************************************************)
C11_NoErrorEscapes == Called => last_call.path # "raise"

(***************************************************************************)
(* C12.  The returned value tells 'evaluated to false' apart from 'failed  *)
(* to evaluate': of two successive calls, one whose expression evaluated   *)
(* to false and one that failed (malformed, unsafe or raising expression), *)
(* the returned values differ.                                             *)
(***************************************************************************)
C12_FalseVsFailed ==
  Called /\ last_call.prev_op \in {"eval", "expire"}
    /\ \/ last_call.failed /\ ~last_call.prev_failed
          /\ ~last_call.prev_ret.result
       \/ last_call.prev_failed /\ ~last_call.failed /\ ~last_call.ret.result
    => last_call.ret # last_call.prev_ret

\* the engine object as it was when the last call started
PreSelf ==
  [redis_client |-> redis_client, redis_store |-> last_call.pre.redis,
   local_cache |-> last_call.pre.cache, cache_size |-> cache_size,
   _allowed_nodes |-> _allowed_nodes, stats |-> last_call.pre.stats,
   lru |-> last_call.pre.lru]

\* a Redis operation of the last call was answered by the server
RedisAnswered == LastStep("redis_get") \/ LastStep("redis_setex")

(***************************************************************************)
(* C13.  Graceful degradation: a call of the cloud engine in which every   *)
(* Redis operation failed, or whose engine has no client because the       *)
(* connection failed at initialize, returns the result and cached flag,    *)
(* and leaves the local cache, the counters (the error counter included)   *)
(* and the compiled-expression cache, exactly as the same call on an       *)
(* engine with no distributed tier and the same local state does; the      *)
(* response carries no error the local-only engine would not report.       *)
(***************************************************************************)
C13_DegradesToLocal ==
  Called /\ engine = "cloud" /\ ~RedisAnswered =>
    LET o == evaluate_condition([PreSelf EXCEPT !.redis_client = "None"],
                                last_call.condition, last_call.variables,
                                FALSE, FALSE)
    IN  /\ last_call.ret = o.ret
        /\ local_cache = o.cache
        /\ stats = o.stats
        /\ lru = o.lru
        /\ redis_store = last_call.pre.redis

\* with a client whose get failed while Redis held values, the call was a
\* hit served by the local cache
C13_Witness ==
  /\ Called /\ engine = "cloud" /\ redis_client = "client"
  /\ LastStep("redis_get!") /\ last_call.path = "hit" /\ redis_store # {}

(***************************************************************************)
(* C14.  The lookup consults Redis first and the local cache only          *)
(* afterwards: the local cache is read exactly when no client is           *)
(* configured, Redis has no value for the key, or the get raises; when     *)
(* Redis answers with a value, that value is returned whatever the local   *)
(* cache holds.                                                            *)
(***************************************************************************)
C14_DistributedFirst ==
  Called /\ engine = "cloud" /\ last_call.path \in {"hit", "miss"} =>
    LET inRedis  == StoreHas(last_call.pre.redis, LastKey)
        inLocal  == DictHas(last_call.pre.cache, LastKey)
        first    == last_call.steps[1]
        answered == redis_client # "None" /\ first = "redis_get" /\ inRedis
    IN  /\ redis_client # "None" => first \in {"redis_get", "redis_get!"}
        /\ redis_client = "None" => first = "local_get"
        /\ LastStep("local_get") <=> ~answered
        /\ answered =>
             /\ last_call.path = "hit"
             /\ last_call.ret.result =
                  json_loads(StoreGet(last_call.pre.redis, LastKey))
        /\ ~answered =>
             /\ last_call.path = "hit" <=> inLocal
             /\ inLocal /\ last_call.path = "hit" =>
                  last_call.ret.result = DictGet(last_call.pre.cache, LastKey)

\* Redis answered with a value a peer stored, for a key the local cache
\* does not hold
C14_Witness ==
  /\ Called /\ engine = "cloud" /\ last_call.steps = <<"redis_get">>
  /\ ~DictHas(last_call.pre.cache, LastKey) /\ last_call.path = "hit"

(***************************************************************************)
(* C15.  The store always writes the local cache: after a call that        *)
(* reached _set_cache the local cache maps the key to the stored value,    *)
(* whether Redis is absent, took the value or failed; the value Redis took *)
(* is held by the local cache as well.                                     *)
(***************************************************************************)
C15_StoreWritesLocal ==
  Called /\ engine = "cloud"
    /\ (LastStep("redis_setex") \/ LastStep("redis_setex!")
        \/ LastStep("local_set")) =>
    /\ LastStep("local_set")
    /\ DictHas(local_cache, LastKey)
    /\ DictGet(local_cache, LastKey) = last_call.ret.result
    /\ LastStep("redis_setex") =>
         /\ RedisHas(LastKey)
         /\ json_loads(RedisGet(LastKey)) = DictGet(local_cache, LastKey)

\* the setex failed and the local cache took the value
C15_Witness ==
  /\ Called /\ engine = "cloud" /\ LastStep("redis_setex!")
  /\ DictHas(local_cache, LastKey) /\ ~RedisHas(LastKey)

(***************************************************************************)
(* C20.  The statistics counters are monotonically non-decreasing over     *)
(* every sequence of public operations, clear_caches included.             *)
(***************************************************************************)
C20_CountersMonotone ==
  [][\A k \in DOMAIN stats : stats'[k] >= stats[k]]_vars

\* the caller waits for the executor to hand back a Redis get or setex
Awaiting(t) == frames[t].pc \in {"await_get", "await_set"}
\* the caller's call is over: it returned, or it raised
Finished(t) == frames[t].pc \in {"done", "raised"}
\* no call is under way
Quiescent == \A t \in Callers : frames[t].pc = "idle" \/ Finished(t)

\* the cache of compiled expressions of the engine's class: the lru_cache
\* of _validate_and_compile / _validate_ast_fast, or _compilation_cache
CompiledCache == IF engine = "opt" THEN _compilation_cache ELSE lru

(***************************************************************************)
(* C16.  A Redis call that never answers does not block an evaluation      *)
(* forever: a call that waits for a Redis get or setex eventually returns, *)
(* whatever the server does.                                               *)
(***************************************************************************)
C16_EventuallyReturns ==
  \A t \in Callers : Awaiting(t) ~> Finished(t)

(***************************************************************************)
(* C17.  No lock is held across a network call: in every state in which a  *)
(* Redis get or setex of the cloud engine is in flight, no caller holds    *)
(* the engine lock, the caller that issued it included.                    *)
(***************************************************************************)
C17_NoLockAcrossNetwork ==
  \A t \in Callers : Awaiting(t) => _lock = {}

\* two Redis calls are in flight at once, and the counters have been
\* updated, under the lock, for both callers
C17_Witness ==
  /\ frames[1].pc = "await_get" /\ frames[2].pc = "await_set"
  /\ stats.requests = 2 /\ stats.cache_misses = 1

(***************************************************************************)
(* C18.  Concurrent callers leave the compiled-expression cache            *)
(* consistent: under every interleaving the cache holds at most one entry  *)
(* per expression text, an entry that holds code holds the compiled form   *)
(* of the validated tree of its own text, a caller only ever holds the     *)
(* code of its own expression, and once all callers have finished the      *)
(* cache holds the entry of every text that went through compilation.      *)
(***************************************************************************)
C18_CompiledCacheConsistent ==
  /\ \A i, j \in 1..Len(CompiledCache) :
       CompiledCache[i].key = CompiledCache[j].key => i = j
  /\ \A i \in 1..Len(CompiledCache) :
       ~CompiledCache[i].val.none =>
         /\ CompiledCache[i].val.tree = ast_parse(CompiledCache[i].key).tree
         /\ Accepted(CompiledCache[i].key)
  /\ \A t \in Callers :
       ~frames[t].code.none =>
         /\ frames[t].code.tree = ast_parse(frames[t].text).tree
         /\ Accepted(frames[t].text)
  /\ Quiescent =>
       \A t \in Callers :
         frames[t].compiled => DictHas(CompiledCache, frames[t].text)

\* two threads compiled and stored the same expression, and the cache
\* holds one entry
C18_Witness ==
  /\ engine = "opt" /\ Quiescent
  /\ frames[1].compiled /\ frames[2].compiled
  /\ frames[1].text = frames[2].text
  /\ Len(_compilation_cache) = 1

(***************************************************************************)
(* C19.  Counter updates are safe under concurrent callers: once n calls   *)
(* have run to completion, in any interleaving, the request / evaluation   *)
(* counter is n and hits + misses is the number of calls that reached the  *)
(* result-cache lookup.                                                    *)
(***************************************************************************)
C19_CountersExact ==
  Quiescent =>
    LET finished == {t \in Callers : Finished(t)} IN
    /\ engine = "cloud" => stats.requests = Cardinality(finished)
    /\ engine = "opt" => stats.evaluations = Cardinality(finished)
    /\ stats.cache_hits + stats.cache_misses =
         Cardinality({t \in finished : frames[t].looked})

\* the last operation was a batch request with a non-empty array
Batched ==
  last_call.op = "batch" /\ last_call.evaluations # <<>>

(***************************************************************************)
(* C21.  Batch evaluation is per-item isolated: a non-empty batch is       *)
(* answered with exactly one result per item, the result at position i     *)
(* carries index i, an item that is malformed or lacks a condition gets an *)
(* error entry of its own, and every other item is evaluated and reported, *)
(* with the error of its evaluation if it failed.                          *)
(***************************************************************************)
C21_BatchIsolated ==
  Batched =>
    LET items   == last_call.evaluations
        results == last_call.response.results
    IN  /\ last_call.response.status = 200
        /\ Len(results) = Len(items)
        /\ \A i \in 1..Len(results) :
             /\ results[i].index = i - 1
             /\ IF items[i].object /\ ~items[i].condition.none
                   /\ items[i].condition.toks # <<>>
                THEN /\ results[i].success
                     /\ results[i].ret # NoRet
                     /\ results[i].error = results[i].ret.error
                ELSE ~results[i].success /\ results[i].error # ""

(***************************************************************************)
(* C22.  The cache of compiled expressions is bounded: whatever distinct   *)
(* texts an evaluator is given, neither the lru_cache of its validator nor *)
(* its _compilation_cache dictionary holds more entries than the maximum   *)
(* configured for the lru_cache of the class.                              *)
(***************************************************************************)
C22_CompiledBounded ==
  LET maxsize == CASE engine = "cloud" -> CloudLruMax
                   [] engine = "opt"   -> OptLruMax
                   [] engine = "depot" -> DepotLruMax
  IN  /\ Len(lru) <= maxsize
      /\ Len(_compilation_cache) <= maxsize

(***************************************************************************)
(* C23.  Every expression built only from the constructs the validator is  *)
(* to permit (comparisons, arithmetic, and/or/not, names, constants,       *)
(* list/tuple/map literals) passes validation in each evaluator: when such *)
(* a text is evaluated, every node kind of its tree is on the evaluator's  *)
(* allow-list and the walk of the call ends with "ok".                     *)
(***************************************************************************)
\* the node classes ast.parse builds for the permitted constructs
PermittedKinds ==
  {"Expression", "Load", "Name", "Constant", "Compare", "BoolOp", "UnaryOp",
   "BinOp", "And", "Or", "Not", "Eq", "NotEq", "Lt", "LtE", "Gt", "GtE",
   "In", "NotIn", "Is", "IsNot", "Add", "Sub", "Mult", "Div", "Mod",
   "List", "Tuple", "Dict"}

\* the text of the last call parses into permitted constructs only
LastPermitted ==
  /\ Called /\ ~LastFast
  /\ ast_parse(LastText).ok
  /\ NodeKinds(ast_parse(LastText).tree) \subseteq PermittedKinds

C23_PermittedPasses ==
  LastPermitted =>
    /\ Accepted(LastText)
    /\ LastStep("validate") => last_call.verdict = "ok"

(***************************************************************************)
(* C24.  The cloud service reports the rejection of a disallowed construct *)
(* apart from a parse failure: for a text that parses but holds a node     *)
(* kind off the allow-list, the result returned differs from the result    *)
(* the same engine returns for a text that does not parse, and its error   *)
(* names a node kind of the text that is off the list.                     *)
(***************************************************************************)
\* the text of the last call parses and the walk rejects it
LastDisallowed ==
  /\ Called /\ ~LastFast
  /\ ast_parse(LastText).ok
  /\ ~Accepted(LastText)

C24_RejectionDistinct ==
  engine = "cloud" /\ LastDisallowed =>
    /\ last_call.ret #
         evaluate_condition(PreSelf, Cond(TxtSyntax), last_call.variables,
                            FALSE, FALSE).ret
    /\ last_call.ret.error \in
         NodeKinds(ast_parse(LastText).tree) \ Allowed

(***************************************************************************)
(* C25.  Evaluation leaves its inputs as they were: after every call that  *)
(* executed the expression, the object the caller passed as variables      *)
(* (a mapping or None) is what it was before the call, and the compiled    *)
(* form the engine keeps for the text is the one compiled from the text's  *)
(* tree, the same as before the call when it was already kept.             *)
(***************************************************************************)
\* the compiled forms the engine kept when the last call started
PreCompiled == IF engine = "opt" THEN last_call.pre.comp ELSE last_call.pre.lru

C26_CacheValidReported ==
  last_call.op = "info" =>
    /\ last_call.prev_op = "invalidate" => ~last_call.info.cache_valid
    /\ last_call.prev_op \in {"get_version", "refresh"} =>
         last_call.info.cache_valid

(***************************************************************************)
(* C28.  A forced refresh returns and caches the version detection finds   *)
(* in the repository as it is at the call, never one remembered from an    *)
(* earlier detection.                                                      *)
(***************************************************************************)
C28_RefreshDetectsAnew ==
  last_call.op = "refresh" =>
    /\ last_call.version = Detect(last_call.env)
    /\ _optimizer_instance._version_cache = last_call.version

C29_OldestEvicted ==
  Called /\ engine \in {"cloud", "opt"} =>
    LET before == last_call.pre.cache
        kept   == IF Len(before) >= cache_size
                  THEN SubSeq(before, (cache_size \div 5) + 1, Len(before))
                  ELSE before
    IN  /\ LastStep("local_set") =>
          ResultCache = Append(kept, Entry(LastKey, last_call.ret.result))
        /\ last_call.path = "hit" => ResultCache = before

\* a store evicts from a full cache after a hit on the entry that was
\* inserted first
C29_Witness ==
  /\ Called /\ LastStep("local_set")
  /\ cache_size \div 5 >= 1
  /\ Len(last_call.pre.cache) >= cache_size
  /\ last_call.prev_op = "eval"
  /\ stats.cache_hits >= 1
  /\ ~DictHas(ResultCache, last_call.pre.cache[1].key)

(***************************************************************************)
(* C30.  A compiled expression does not depend on variables.  In the cloud *)
(* service and the optimized evaluator the compiled forms are kept under   *)
(* the trimmed text alone, each being the form compiled from the tree of   *)
(* its text, and a call that executes a form compiled during an earlier    *)
(* call, with whatever variables that call had, returns what the same call *)
(* returns on a newly constructed engine.                                  *)
(***************************************************************************)
\* what a newly constructed engine of the class returns for a call
FreshReturn(condition, variables) ==
  IF engine = "cloud"
  THEN evaluate_condition(
         [redis_client |-> "None", redis_store |-> {}, local_cache |-> <<>>,
          cache_size |-> cache_size, _allowed_nodes |-> _allowed_nodes,
          stats |-> InitStats("cloud"), lru |-> <<>>],
         condition, variables, FALSE, FALSE).ret
  ELSE evaluate_condition_optimized(
         [stats |-> InitStats("opt"), _result_cache |-> <<>>, lru |-> <<>>,
          _compilation_cache |-> <<>>, cache_size |-> cache_size,
          _allowed_nodes |-> _allowed_nodes, redis_store |-> {}],
         condition, variables).ret

C30_CompiledIndependent ==
  engine \in {"cloud", "opt"} =>
    /\ \A i \in 1..Len(CompiledCache) :
         /\ CompiledCache[i].key = Strip(CompiledCache[i].key)
         /\ \/ CompiledCache[i].val.none
            \/ CompiledCache[i].val =
                 Compile(ast_parse(CompiledCache[i].key).tree)
    /\ Called /\ last_call.path = "miss" /\ DictHas(PreCompiled, LastText) =>
         last_call.ret = FreshReturn(last_call.condition, last_call.variables)

\* a form compiled during a call with other variables is executed and the
\* expression is true under the variables of this call
C30_Witness ==
  /\ engine \in {"cloud", "opt"}
  /\ Called /\ last_call.path = "miss" /\ LastStep("eval")
  /\ DictHas(PreCompiled, LastText)
  /\ ~DictGet(PreCompiled, LastText).none
  /\ ~last_call.repeat
  /\ last_call.ret.result

(***************************************************************************)
(* C31.  DepotToolsOptimizer.evaluate_condition_cached, on a cache miss    *)
(* for an expression that passes validation and executes without error,    *)
(* returns the boolean value of the expression under the given variables   *)
(* and stores it in _condition_cache under the key of the call; the next   *)
(* identical call is then a hit that returns the stored value, increments  *)
(* cache_hits and executes nothing.                                        *)
(***************************************************************************)
C31_DepotMissStores ==
  engine = "depot" /\ Called /\ ~LastFast /\ Succeeds(LastText, LastVars) =>
    LET value == Truthy(Eval(ast_parse(LastText).tree, LastVars).val) IN
    /\ last_call.ret.result = value
    /\ DictHas(_condition_cache, LastKey)
    /\ DictGet(_condition_cache, LastKey) = value
    /\ last_call.repeat =>
         /\ last_call.path = "hit"
         /\ stats.cache_hits = last_call.pre.stats.cache_hits + 1
         /\ ~LastStep("eval")

(***************************************************************************)
(* C32.  get_version() without force_refresh returns the cached version    *)
(* and runs no detection (the object stays as it was) whenever a version   *)
(* is cached and less than _cache_duration seconds have passed since it    *)
(* was stored; once the duration has passed, or after invalidate_cache(),  *)
(* it detects the version anew (returns what detection finds in the        *)
(* environment of the call) and stamps the cache with the time of the      *)
(* call.                                                                   *)
(***************************************************************************)
C32_CacheWindow ==
  last_call.op = "get_version" =>
    LET pre   == last_call.pre
        fresh == /\ pre._version_cache # NoVersion
                 /\ last_call.env.now - pre._cache_timestamp < _cache_duration
    IN
    /\ fresh => /\ last_call.version = pre._version_cache
                /\ _optimizer_instance = pre
    /\ ~fresh => /\ last_call.version = Detect(last_call.env)
                 /\ _optimizer_instance._version_cache = last_call.version
                 /\ _optimizer_instance._cache_timestamp = last_call.env.now

\* the identifiers of the Name nodes of a tree
RECURSIVE NamesOf(_)
NamesOf(node) ==
  (IF node.kind = "Name" THEN {node.id} ELSE {}) \cup
  UNION {NamesOf(node.children[i]) : i \in 1..Len(node.children)}

(***************************************************************************)
(* C33.  The namespace an expression is executed in is the fixed whitelist *)
(* plus the caller's variables, for every variable context, one with an    *)
(* entry named '__builtins__' or named like a whitelisted builtin          *)
(* included: the builtins of the execution are the whitelist dict, which   *)
(* no caller variable replaces or removes, and every name the expression   *)
(* can resolve is a variable of the caller or a name of the whitelist.     *)
(***************************************************************************)
C33_NamespaceFixed ==
  Called /\ LastStep("eval") =>
    LET globals == safe_globals(last_call.variables).globals IN
    /\ Builtins(globals) = BuiltinsDict
    /\ \A id \in NamesOf(ast_parse(LastText).tree) :
         LookupName(id, globals).ok =>
           \/ HasName(LastVars, id) /\ LookupName(id, globals).val = Get(LastVars, id)
           \/ id \in BuiltinNames /\ LookupName(id, globals).val = PyFunc(id)

(***************************************************************************)
(* C34.  Result-cache coherence: in every reachable state, every entry of  *)
(* the engine's local result cache maps the key of a pair (expression,     *)
(* variables) to the boolean that validating and executing the expression  *)
(* against the variables yields, for every pair of the calls that has that *)
(* key; so a hit returns what a fresh evaluation of the call's pair        *)
(* returns, and pairs that differ in the expression or in a variable value *)
(* are not served from each other's entry.                                 *)
(***************************************************************************)
C34_CacheCoherent ==
  /\ \A i \in 1..Len(ResultCache) : \A in \in KeyInputs :
       LET text == Strip(in[1].toks) IN
       ResultCache[i].key = KeyOf(text, OrEmpty(in[2])) =>
         /\ Succeeds(text, OrEmpty(in[2]))
         /\ ResultCache[i].val
              = Truthy(Eval(ast_parse(text).tree, OrEmpty(in[2])).val)
  /\ Called /\ last_call.path = "hit" =>
       /\ Succeeds(LastText, LastVars)
       /\ last_call.ret.result
            = Truthy(Eval(ast_parse(LastText).tree, LastVars).val)

\* the callers whose call has started
Begun == {t \in Callers : frames[t].pc # "idle"}
\* the callers whose call got an answer from the result cache lookup
Looked == {t \in Callers : frames[t].looked}
\* the callers whose call returned a failure
FailedCalls ==
  {t \in Callers : frames[t].pc = "done" /\ frames[t].ret.error \notin {"", "n/a"}}

(***************************************************************************)
(* C35.  Counter accounting in CloudGClientEvaluator, under every          *)
(* interleaving of concurrent evaluate_condition calls: in every reachable *)
(* state cache_hits + cache_misses <= requests and errors <= requests;     *)
(* each call increments requests exactly once (requests is the number of   *)
(* calls begun), increments at most one of cache_hits and cache_misses     *)
(* (their sum is the number of calls that got past the lookup), and        *)
(* increments errors only when it returns a failure.                       *)
(***************************************************************************)
C35_CounterAccounting ==
  engine = "cloud" =>
    /\ stats.cache_hits + stats.cache_misses <= stats.requests
    /\ stats.errors <= stats.requests
    /\ stats.requests = Cardinality(Begun)
    /\ stats.cache_hits + stats.cache_misses = Cardinality(Looked)
    /\ stats.errors = Cardinality(FailedCalls)

\* a call has returned after a miss while another is waiting for Redis
C35_Witness ==
  /\ engine = "cloud" /\ stats.requests = 2 /\ stats.cache_misses = 1
  /\ \E t \in Callers : frames[t].pc = "await_get"
  /\ \E t \in Callers : frames[t].pc = "done" /\ frames[t].looked

(***************************************************************************)
(* C36.  The cached flag is truthful: a response of                        *)
(* CloudGClientEvaluator.evaluate_condition carries cached = true if and   *)
(* only if its result came out of a result-cache lookup (distributed or    *)
(* local tier) made by that call; every response produced without          *)
(* consulting the result cache (the empty-condition and the literal fast   *)
(* path) and every error response carries cached = false.                  *)
(***************************************************************************)
C36_CachedFlagTruthful ==
  Called /\ engine = "cloud" /\ last_call.path # "raise" =>
    /\ last_call.ret.cached = "True" <=>
         /\ last_call.path = "hit"
         /\ LastStep("local_get") \/ LastStep("redis_get")
    /\ LastFast => last_call.ret.cached = "False"
    /\ last_call.failed => last_call.ret.cached = "False"

(***************************************************************************)
(* C37.  Version-cache freshness under concurrency: while threads call     *)
(* get_version on one DepotToolsVersionOptimizer, no step lowers the       *)
(* stored cache timestamp; the timestamp is the time at which the call     *)
(* that wrote the cache started, so the cached version is never replaced   *)
(* by the result of a detection that started earlier than the one whose    *)
(* result is cached.                                                       *)
(***************************************************************************)
C37_NoStaleOverwrite ==
  [][_optimizer_instance'._cache_timestamp
       >= _optimizer_instance._cache_timestamp]_vars

====
